---------------------------- MODULE Spec2Model ----------------------------
(***************************************************************************)
(* Model of the Malayalam writing-style / clickbait scorer of              *)
(* src/app/services/writing_style.py (class EnhancedMalayalamAnalyzer).    *)
(*                                                                         *)
(* Strings.  A str is a sequence of runs.  A run [k, l, n, r] stands for   *)
(* the last l code points of the unit string of kind k, then n whole       *)
(* copies of the unit, then the first r code points of the unit.  A text a *)
(* caller passes has whole units only (l = r = 0) and no two adjacent runs *)
(* of one kind, so a str has one representation; slicing (text[:3000],     *)
(* s[3000:]) is what cuts a unit.  The unit strings are                    *)
(*    "sp"         " "      whitespace                                     *)
(*    "x"          "x"      a Latin letter that occurs in no rule          *)
(*    "X"          "X"      the same letter in upper case                  *)
(*    "y"          "y"      a second Latin letter that occurs in no rule   *)
(*    "ka"         U+0D15   a Malayalam letter that occurs in no rule      *)
(*    "dot"        "."      a sentence terminal                            *)
(*    "bang"       "!"      a second sentence terminal                     *)
(*    "viral"      "viral"  5 code points, clickbait rule 13, weight 15    *)
(*    "m_viral"    U+0D35 U+0D48 U+0D31 U+0D7D   clickbait rule 5, 15      *)
(*    "m_padhanam" U+0D2A U+0D20 U+0D28 U+0D02   writing_style rule 3, 15  *)
(*    "m_bhayam"   U+0D2D U+0D2F U+0D02          sensationalism rule 2, 25 *)
(* No proper prefix or suffix of a unit, and no junction of two units,     *)
(* matches a rule of the bank.                                             *)
(*                                                                         *)
(* Floats.  A score is an integer count of thousandths (Scale); a division *)
(* rounds down.  The logistic curve of _normalize_score is tabulated at    *)
(* the whole scores 0..173 and interpolated linearly between them.         *)
(***************************************************************************)
EXTENDS Integers, Sequences, FiniteSets, TLC

VARIABLES
    preCache,   \* lru_cache of _preprocess_text: <<[key, val], ...>>, most recent first
    normCache,  \* lru_cache of _normalize_score: <<[key, val], ...>>, most recent first
    pc,         \* "idle" before the first call, "returned" after a call
    input,      \* the argument of the last analyze_text call
    faults,     \* the steps of the last call whose body raised
    result,     \* the dict the last call returned
    raised,     \* TRUE when the last call propagated an exception
    steps,      \* the methods the last call entered
    dbg,        \* the intermediate values of the last call
    raising,    \* the number of calls so far in which a step raised
    evicted,    \* the key the _preprocess_text cache dropped last, if any
    reloaded,   \* TRUE when the last call recomputed the entry dropped last
    health,     \* what the last health_check returned, NoHealth before the first
    patterns,   \* self.patterns of the shared analyzer
    instance,   \* _ANALYZER_INSTANCE: NoInstance, or the analyzer built n-th
    built,      \* the number of analyzers constructed (_compile_patterns runs)
    loaded,     \* TRUE when the module body of writing_style has run to its end
    ga,         \* per caller, its position in get_analyzer and its locals
    th,         \* per thread, its position in a concurrent analyze_text call
    loc,        \* per slot, the locals of an analyze_text call in flight
    malformed,  \* the source rules, <<category, position>>, re.compile rejects
    call,       \* the last direct call of a method of the analyzer
    http,       \* the last response of POST /api/writing-style
    memory_cache,  \* NewsAnalysisService.memory_cache: per query hash, a result
    disk_cache,    \* NewsAnalysisService.disk_cache: per query hash, a result
    news,          \* the last analyze_news call and what it returned
    http_session,  \* _session of http_client: NoSession, or the n-th session
    closed,        \* the sessions that were closed
    svc_session,   \* per NewsAnalysisService, its _session
    handed,        \* the last session handed out, and by which function
    sessions,      \* the number of ClientSession objects created
    cleaning,      \* TRUE while cleanup_http_session awaits _session.close()
    url_response,  \* the last URLAnalysisResponse analyze_url built
    temp_files,    \* the temporary files that exist
    tmp_count,     \* the number of temporary files created
    image          \* the last request to the image /analyze endpoint

vars ==
    <<preCache, normCache, pc, input, faults, result, raised, steps, dbg, raising,
      evicted, reloaded, health, patterns, instance, built, loaded, ga, th, loc,
      malformed, call, http, memory_cache, disk_cache, news, http_session, closed,
      svc_session, handed, sessions, cleaning, url_response, temp_files, tmp_count,
      image>>

\* The variables of the calls on the analyzer
scoringVars ==
    <<preCache, normCache, pc, input, faults, result, raised, steps, dbg, raising,
      evicted, reloaded, health, th, loc>>

\* The record of the last call made by the one sequential caller
lastCallVars ==
    <<pc, input, faults, result, raised, steps, dbg, raising, evicted, reloaded,
      health>>

\* The variables of the direct method calls and of the rejected source rules
methodVars == <<malformed, call>>

\* The variables of the news analysis service
newsVars == <<memory_cache, disk_cache, news>>

\* The variables of the shared HTTP session
sessionVars == <<http_session, closed, svc_session, handed, sessions, cleaning>>

\* The variables of the image endpoint
imageVars == <<temp_files, tmp_count, image>>

\* The variables of the endpoints and services around the analyzer
endpointVars == <<http, newsVars, sessionVars, url_response, imageVars>>

\* The variables outside the analyzer, its module and its threads
serviceVars == <<methodVars, endpointVars>>

---------------------------------------------------------------------------
(* Bounds of the model *)

\* Capacity of the _preprocess_text cache in the model.  The code's maxsize is
\* 512; the model runs with a capacity small enough for eviction to happen.
PreprocessCap == 2

\* Capacity of the _normalize_score cache in the model (maxsize 256 in the code).
NormalizeCap == 3

\* Longest text, in runs, of the family Texts.
MaxRuns == 2

\* Most steps that raise during one call, in SpecFault.
MaxFaults == 2

\* Most calls of one run in which a step raises, in SpecFault.
MaxRaisingCalls == 1

\* The concurrent callers of get_analyzer, in SpecLoad.
MaxCallers == 3

\* Most get_analyzer calls of one caller, in SpecLoad.
MaxGetCalls == 2

\* Most source rules that re.compile rejects, in SpecCompile.
MaxMalformed == 2

\* The distinct claims submitted to analyze_news, in SpecNews.
MaxClaims == 2

\* Most ClientSession objects created, in SpecSession.
MaxSessions == 3

\* The probabilities of the classifier tried in SpecUrl are the multiples
\* of 1/MaxProbabilities, and the values next to 0.5 and to 1.
MaxProbabilities == 20

\* Most temporary files created by the image endpoint, in SpecImage.
MaxTempFiles == 3

\* The threads of SpecThreads: each serves one request, one analyze_text
\* call, and the calls overlap in every possible way.
MaxThreads == 2

---------------------------------------------------------------------------
(* Program constants *)

Scale == 1000

MAX_TEXT_LENGTH == 3000
LONG_TEXT_LENGTH == 1000
MAX_OBSERVED_MALAYALAM == 500
MAX_OBSERVED_DEFAULT == 400
MAX_SENS == 400
NEUTRAL_SCORE == 50
MAX_SCORE == 100
PREPROCESS_MAXSIZE == 512
NORMALIZE_MAXSIZE == 256

---------------------------------------------------------------------------
(* Strings *)

Kinds ==
    {"sp", "x", "X", "y", "ka", "dot", "bang", "viral", "m_viral", "m_padhanam",
     "m_bhayam"}

UnitLen(k) ==
    CASE k = "viral" -> 5
      [] k \in {"m_viral", "m_padhanam"} -> 4
      [] k = "m_bhayam" -> 3
      [] OTHER -> 1

IsSpaceKind(k) == k = "sp"
IsTerminalKind(k) == k \in {"dot", "bang"}
IsMalayalamKind(k) == k \in {"ka", "m_viral", "m_padhanam", "m_bhayam"}
IsWordKind(k) ==
    k \in {"x", "X", "y", "ka", "viral", "m_viral", "m_padhanam", "m_bhayam"}

Run(k, n) == [k |-> k, l |-> 0, n |-> n, r |-> 0]

RunLen(run) == run.l + run.n * UnitLen(run.k) + run.r

RECURSIVE StrLen(_)
StrLen(t) == IF t = <<>> THEN 0 ELSE RunLen(Head(t)) + StrLen(Tail(t))

\* a + b
Concat(a, b) ==
    IF a = <<>> THEN b
    ELSE IF b = <<>> THEN a
    ELSE LET la == a[Len(a)]
             hb == Head(b)
         IN  IF la.k = hb.k /\ la.r = 0 /\ hb.l = 0
             THEN SubSeq(a, 1, Len(a) - 1)
                  \o <<[k |-> la.k, l |-> la.l, n |-> la.n + hb.n, r |-> hb.r]>>
                  \o Tail(b)
             ELSE a \o b

\* text[:m]
RECURSIVE Prefix(_, _)
Prefix(t, m) ==
    IF t = <<>> \/ m <= 0 THEN <<>>
    ELSE LET h == Head(t)
         IN  IF RunLen(h) <= m
             THEN <<h>> \o Prefix(Tail(t), m - RunLen(h))
             ELSE IF m <= h.l
                  THEN <<[k |-> h.k, l |-> m, n |-> 0, r |-> 0]>>
                  ELSE <<[k |-> h.k, l |-> h.l,
                          n |-> (m - h.l) \div UnitLen(h.k),
                          r |-> (m - h.l) % UnitLen(h.k)]>>

\* text[m:]
RECURSIVE Suffix(_, _)
Suffix(t, m) ==
    IF t = <<>> THEN <<>>
    ELSE IF m <= 0 THEN t
    ELSE LET h == Head(t)
         IN  IF RunLen(h) <= m
             THEN Suffix(Tail(t), m - RunLen(h))
             ELSE LET keep == RunLen(h) - m
                  IN  IF keep <= h.r
                      THEN <<[k |-> h.k, l |-> 0, n |-> 0, r |-> keep]>> \o Tail(t)
                      ELSE <<[k |-> h.k,
                              l |-> (keep - h.r) % UnitLen(h.k),
                              n |-> (keep - h.r) \div UnitLen(h.k),
                              r |-> h.r]>> \o Tail(t)

\* text.strip(): leading and trailing whitespace removed
RECURSIVE LStrip(_)
LStrip(t) ==
    IF t = <<>> THEN <<>>
    ELSE IF IsSpaceKind(Head(t).k) THEN LStrip(Tail(t)) ELSE t

RECURSIVE RStrip(_)
RStrip(t) ==
    IF t = <<>> THEN <<>>
    ELSE IF IsSpaceKind(t[Len(t)].k) THEN RStrip(SubSeq(t, 1, Len(t) - 1)) ELSE t

Strip(t) == RStrip(LStrip(t))


\* text.lower()
RECURSIVE Lower(_)
Lower(t) ==
    IF t = <<>> THEN <<>>
    ELSE LET h == Head(t)
             lh == IF h.k = "X" THEN [h EXCEPT !.k = "x"] ELSE h
         IN  Concat(<<lh>>, Lower(Tail(t)))

\* bool(self.malayalam_range.search(text))
HasMalayalam(t) == \E i \in 1..Len(t) : IsMalayalamKind(t[i].k)

\* sum(1 for c in text if 'ഀ' <= c <= 'ൿ')
RECURSIVE MalayalamChars(_)
MalayalamChars(t) ==
    IF t = <<>> THEN 0
    ELSE (IF IsMalayalamKind(Head(t).k) THEN RunLen(Head(t)) ELSE 0)
         + MalayalamChars(Tail(t))

\* The pieces of t between the runs whose kind is in seps, empty pieces
\* included (re.split); cur is the piece being read.
RECURSIVE Pieces(_, _, _)
Pieces(t, cur, seps) ==
    IF t = <<>> THEN <<cur>>
    ELSE IF Head(t).k \in seps
         THEN <<cur>> \o Pieces(Tail(t), <<>>, seps)
         ELSE Pieces(Tail(t), Append(cur, Head(t)), seps)

NonEmpty(s) == s # <<>>

\* The pieces kept when they are non-empty before stripping, and not stripped.
SentencesUnstripped(t) ==
    SelectSeq(Pieces(t, <<>>, {k \in Kinds : IsTerminalKind(k)}), NonEmpty)

\* re.split(r'[.!?...]+', text), each piece stripped, the empty ones dropped
Sentences(t) ==
    LET parts == Pieces(t, <<>>, {k \in Kinds : IsTerminalKind(k)})
        stripped == [i \in 1..Len(parts) |-> Strip(parts[i])]
    IN  SelectSeq(stripped, NonEmpty)

\* re.findall(r'[\wഀ-ൿ]+', text.lower())
Words(t) == SelectSeq(Pieces(Lower(t), <<>>, {k \in Kinds : ~IsWordKind(k)}), NonEmpty)

Range(s) == {s[i] : i \in 1..Len(s)}

---------------------------------------------------------------------------
(* The pattern bank: per category the rules in order, each with the unit   *)
(* strings of the model that one of its alternatives matches and its weight *)

Rule(alts, weight) == [alts |-> alts, weight |-> weight]

PatternBank ==
    [clickbait |-> <<
        Rule({}, 25), Rule({}, 30), Rule({}, 25), Rule({}, 20),
        Rule({"m_viral"}, 15),
        Rule({}, 20), Rule({}, 25), Rule({}, 20), Rule({}, 25),
        Rule({}, 25), Rule({}, 20), Rule({}, 15),
        Rule({"viral"}, 15),
        Rule({}, 15), Rule({}, 15) >>,
     writing_style |-> <<
        Rule({}, 15), Rule({}, 10),
        Rule({"m_padhanam"}, 15),
        Rule({}, 10), Rule({}, 15), Rule({}, 20), Rule({}, 15), Rule({}, 15) >>,
     sensationalism |-> <<
        Rule({}, 25),
        Rule({"m_bhayam"}, 25),
        Rule({}, 20), Rule({}, 20), Rule({}, 20), Rule({}, 25) >>]

\* The compile loop with one try around the whole of it: the first rule
\* that re.compile rejects ends the loop of its category.
RECURSIVE CompileRulesUntilFailure(_, _, _, _)
CompileRulesUntilFailure(rules, category, i, bad) ==
    IF rules = <<>> \/ <<category, i>> \in bad THEN <<>>
    ELSE <<Head(rules)>> \o CompileRulesUntilFailure(Tail(rules), category, i + 1, bad)

\* The loop of lines 119-123 over the source rules of one category from
\* position i on: a rule that re.compile rejects (bad) is logged and left
\* out, the others are appended in order with their weights.
RECURSIVE CompileRules(_, _, _, _)
CompileRules(rules, category, i, bad) ==
    IF rules = <<>> THEN <<>>
    ELSE IF <<category, i>> \in bad
         THEN CompileRules(Tail(rules), category, i + 1, bad)
         ELSE <<Head(rules)>> \o CompileRules(Tail(rules), category, i + 1, bad)

\* self.patterns after _compile_patterns, from the source rules
compile_patterns(source, bad) ==
    [c \in DOMAIN source |-> CompileRules(source[c], c, 1, bad)]

\* len(pattern.findall(text)): the whole units of the rule's alternatives
RECURSIVE FindAll(_, _)
FindAll(rule, t) ==
    IF t = <<>> THEN 0
    ELSE (IF Head(t).k \in rule.alts THEN Head(t).n ELSE 0) + FindAll(rule, Tail(t))

---------------------------------------------------------------------------
(* functools.lru_cache *)

Min(a, b) == IF a <= b THEN a ELSE b
Max(a, b) == IF a >= b THEN a ELSE b

CacheIndex(cache, key) ==
    IF \E i \in 1..Len(cache) : cache[i].key = key
    THEN CHOOSE i \in 1..Len(cache) : cache[i].key = key
    ELSE 0

LruHit(cache, i) ==
    [val |-> cache[i].val, hit |-> TRUE,
     cache |-> <<cache[i]>> \o SubSeq(cache, 1, i - 1)
               \o SubSeq(cache, i + 1, Len(cache))]

\* A miss that stores the entry and drops none.
LruMissUnbounded(cache, key, val, cap) ==
    [val |-> val, hit |-> FALSE, cache |-> <<[key |-> key, val |-> val]>> \o cache]

LruMiss(cache, key, val, cap) ==
    [val |-> val, hit |-> FALSE,
     cache |-> SubSeq(<<[key |-> key, val |-> val]>> \o cache, 1,
                      Min(cap, Len(cache) + 1))]

LruAt(cache, key, fresh, cap, i) ==
    IF i > 0 THEN LruHit(cache, i) ELSE LruMiss(cache, key, fresh, cap)

\* A call through an lru_cache of capacity cap: a hit returns the stored value
\* and makes the entry the most recent; a miss runs the body (fresh), stores
\* its value as the most recent entry and drops the least recent entry of a
\* full cache.
LruCall(cache, key, fresh, cap) ==
    LruAt(cache, key, fresh, cap, CacheIndex(cache, key))

---------------------------------------------------------------------------
(* The scorer.  f is the set of steps whose body raises in this call. *)

FaultPoints ==
    {"preprocess", "stats", "patterns", "writing_style", "clickbait",
     "normalize", "analyze_text"}

\* 100 / (1 + exp(-0.1 * (score - 50))) in thousandths at score = 0, 1, ..., 173
SigmoidTable == <<
    669, 739, 816, 901, 995, 1099, 1213, 1339, 1477, 1630,
    1799, 1984, 2188, 2413, 2660, 2931, 3230, 3557, 3917, 4311,
    4743, 5215, 5732, 6297, 6914, 7586, 8317, 9112, 9975, 10910,
    11920, 13011, 14185, 15447, 16798, 18243, 19782, 21417, 23148, 24974,
    26894, 28905, 31003, 33181, 35434, 37754, 40131, 42556, 45017, 47502,
    50000, 52498, 54983, 57444, 59869, 62246, 64566, 66819, 68997, 71095,
    73106, 75026, 76852, 78583, 80218, 81757, 83202, 84553, 85815, 86989,
    88080, 89090, 90025, 90888, 91683, 92414, 93086, 93703, 94268, 94785,
    95257, 95689, 96083, 96443, 96770, 97069, 97340, 97587, 97812, 98016,
    98201, 98370, 98523, 98661, 98787, 98901, 99005, 99099, 99184, 99261,
    99331, 99394, 99451, 99503, 99550, 99593, 99632, 99667, 99698, 99727,
    99753, 99776, 99797, 99817, 99834, 99850, 99864, 99877, 99889, 99899,
    99909, 99918, 99925, 99932, 99939, 99945, 99950, 99955, 99959, 99963,
    99966, 99970, 99973, 99975, 99978, 99980, 99982, 99983, 99985, 99986,
    99988, 99989, 99990, 99991, 99992, 99993, 99993, 99994, 99994, 99995,
    99995, 99996, 99996, 99997, 99997, 99997, 99998, 99998, 99998, 99998,
    99998, 99998, 99999, 99999, 99999, 99999, 99999, 99999, 99999, 99999,
    99999, 99999, 99999, 100000 >>

\* 100 / (1 + np.exp(-0.1 * (score - 50))); a raw score is never negative
Sigmoid(score) ==
    IF score <= 0 THEN SigmoidTable[1]
    ELSE IF score >= (Len(SigmoidTable) - 1) * Scale THEN SigmoidTable[Len(SigmoidTable)]
    ELSE LET i == score \div Scale
             a == SigmoidTable[i + 1]
             b == SigmoidTable[i + 2]
         IN  a + ((b - a) * (score % Scale)) \div Scale

\* the body of _normalize_score
NormalizeBody(score, f) ==
    IF "normalize" \in f THEN NEUTRAL_SCORE * Scale
    ELSE Max(0, Min(MAX_SCORE * Scale, Sigmoid(score)))

\* Cache keyed by the whole part of the score.
NormalizeKeyRounded(score) == score \div Scale

\* the key under which lru_cache stores a call of _normalize_score
NormalizeKey(score) == score

normalize_score(score, cache, f) ==
    LruCall(cache, NormalizeKey(score), NormalizeBody(score, f), NormalizeCap)

EmptyPreprocessed == [sentences |-> <<>>, words |-> <<>>]

\* the body of _preprocess_text
PreprocessBody(text, f) ==
    IF "preprocess" \in f THEN EmptyPreprocessed
    ELSE [sentences |-> Sentences(text), words |-> Words(text)]

preprocess_text(text, cache, f) ==
    LruCall(cache, text, PreprocessBody(text, f), PreprocessCap)

ZeroStats == [avg_sentence_length |-> 0, lexical_diversity |-> 0]

calculate_text_stats(sentences, words, f) ==
    IF "stats" \in f THEN ZeroStats
    ELSE IF sentences = <<>> \/ words = <<>> THEN ZeroStats
    ELSE [avg_sentence_length |-> (Len(words) * Scale) \div Len(sentences),
          lexical_diversity |-> (Cardinality(Range(words)) * Scale) \div Len(words)]

\* weight * 1.2 if has_malayalam else weight
AdjustedWeight(weight, has_malayalam) ==
    IF has_malayalam THEN (weight * Scale * 12) \div 10 ELSE weight * Scale

RECURSIVE ScoreRules(_, _, _)
ScoreRules(rules, text, has_malayalam) ==
    IF rules = <<>> THEN [score |-> 0, count |-> 0]
    ELSE LET matches == FindAll(Head(rules), text)
             rest == ScoreRules(Tail(rules), text, has_malayalam)
         IN  IF matches > 0
             THEN [score |-> matches * AdjustedWeight(Head(rules).weight, has_malayalam)
                             + rest.score,
                   count |-> matches + rest.count]
             ELSE rest

\* Rules held as an iterator that the loop of _analyze_patterns exhausts.
PatternsAfterMatchConsumed(bank, pattern_type) ==
    IF pattern_type \in DOMAIN bank THEN [bank EXCEPT ![pattern_type] = <<>>] ELSE bank

\* self.patterns held as a defaultdict(list), which a lookup of a missing
\* category extends.
PatternsAfterMatchDefaultDict(bank, pattern_type) ==
    [c \in DOMAIN bank \cup {pattern_type} |->
        IF c \in DOMAIN bank THEN bank[c] ELSE <<>>]

\* self.patterns after _analyze_patterns(text, pattern_type), which only
\* reads it
PatternsAfterMatch(bank, pattern_type) == bank

\* self.patterns after the matches of one analyze_text call that scored
PatternsAfterScoring(bank, has_malayalam) ==
    IF has_malayalam
    THEN PatternsAfterMatch(
             PatternsAfterMatch(PatternsAfterMatch(bank, "writing_style"), "clickbait"),
             "sensationalism")
    ELSE PatternsAfterMatch(PatternsAfterMatch(bank, "writing_style"), "clickbait")

analyze_patterns(bank, text, pattern_type, f) ==
    IF "patterns" \in f THEN [score |-> 0, count |-> 0]
    ELSE IF pattern_type \notin DOMAIN bank THEN [score |-> 0, count |-> 0]
    ELSE ScoreRules(bank[pattern_type], text, HasMalayalam(text))

\* Threshold test written malayalam_ratio >= 0.3.
MalayalamFlavoredFromThreshold(text) ==
    text # <<>> /\ MalayalamChars(text) * 10 >= 3 * StrLen(text)

\* malayalam_ratio > 0.3
MalayalamFlavored(text) ==
    text # <<>> /\ MalayalamChars(text) * 10 > 3 * StrLen(text)

\* The factors and the combined score of analyze_writing_style
WritingStyleFactors(text, pre_hit, stats, style) ==
    LET length_base == Min(MAX_SCORE * Scale, stats.avg_sentence_length * 5)
        diversity_base == Min(MAX_SCORE * Scale, stats.lexical_diversity * 200)
        flavored == MalayalamFlavored(text)
        length_factor == IF flavored THEN (length_base * 8) \div 10 ELSE length_base
        diversity_factor ==
            IF flavored THEN (diversity_base * 12) \div 10 ELSE diversity_base
    IN  [pre_hit |-> pre_hit, stats |-> stats, style_score |-> style.score,
         length_factor |-> length_factor,
         diversity_factor |-> diversity_factor,
         combined_score |-> (style.score * 50) \div 100
                            + (length_factor * 25) \div 100
                            + (diversity_factor * 25) \div 100]

WritingStyleSteps ==
    {"analyze_writing_style", "_preprocess_text", "_calculate_text_stats",
     "_analyze_patterns"}

\* return self._normalize_score(combined_score), n being that call
WritingStyleReturn(pre, seen, n) ==
    [val |-> n.val, pre |-> pre, norm |-> n.cache,
     steps |-> WritingStyleSteps \cup {"_normalize_score"}, seen |-> seen]

\* The handler of analyze_writing_style returning the low score 0.0, as the
\* handler of calculate_clickbait_score does.
WritingStyleScoreZeroOnError(pre, norm, f, seen) ==
    IF "writing_style" \in f
    THEN [val |-> 0, pre |-> pre, norm |-> norm,
          steps |-> WritingStyleSteps, seen |-> seen]
    ELSE WritingStyleReturn(pre, seen, normalize_score(seen.combined_score, norm, f))

\* analyze_writing_style from the factors on.  A raise of the body itself
\* happens after the factors are computed and before the score is normalized.
WritingStyleScore(pre, norm, f, seen) ==
    IF "writing_style" \in f
    THEN [val |-> NEUTRAL_SCORE * Scale, pre |-> pre, norm |-> norm,
          steps |-> WritingStyleSteps, seen |-> seen]
    ELSE WritingStyleReturn(pre, seen, normalize_score(seen.combined_score, norm, f))

\* analyze_writing_style after sentences, words = self._preprocess_text(text)
WritingStyleOf(text, norm, f, p) ==
    WritingStyleScore(p.cache, norm, f,
        WritingStyleFactors(text, p.hit,
            calculate_text_stats(p.val.sentences, p.val.words, f),
            analyze_patterns(patterns, text, "writing_style", f)))

analyze_writing_style(text, pre, norm, f) ==
    WritingStyleOf(text, norm, f, preprocess_text(text, pre, f))

\* Penalty applied from 1000 code points on instead of above 1000.
LengthPenaltyFromThreshold(text_length) ==
    IF text_length >= LONG_TEXT_LENGTH THEN 8 ELSE 10

\* length_factor of calculate_clickbait_score, in tenths
LengthPenaltyTenths(text_length) ==
    IF text_length > LONG_TEXT_LENGTH THEN 8 ELSE 10

\* Raw score with the division written //: whole multiples of max_observed.
ClickbaitRawFloorDiv(text, pat) ==
    LET max_observed ==
            IF HasMalayalam(text) THEN MAX_OBSERVED_MALAYALAM ELSE MAX_OBSERVED_DEFAULT
    IN  [total_score |-> pat.score, match_count |-> pat.count,
         max_observed |-> max_observed,
         normalized_score |-> (((pat.score \div (max_observed * Scale)) * 100 * Scale)
                               * LengthPenaltyTenths(StrLen(text))) \div 10]

\* The raw clickbait score of calculate_clickbait_score
ClickbaitRaw(text, pat) ==
    LET max_observed ==
            IF HasMalayalam(text) THEN MAX_OBSERVED_MALAYALAM ELSE MAX_OBSERVED_DEFAULT
    IN  [total_score |-> pat.score, match_count |-> pat.count,
         max_observed |-> max_observed,
         normalized_score |-> (((pat.score * 100) \div max_observed)
                               * LengthPenaltyTenths(StrLen(text))) \div 10]

ClickbaitSteps == {"calculate_clickbait_score", "_analyze_patterns"}

\* return self._normalize_score(normalized_score), n being that call
ClickbaitReturn(seen, n) ==
    [val |-> n.val, norm |-> n.cache,
     steps |-> ClickbaitSteps \cup {"_normalize_score"}, seen |-> seen]

\* calculate_clickbait_score from the raw score on.  A raise of the body
\* itself happens after the raw score is computed and before it is normalized.
ClickbaitScore(norm, f, seen) ==
    IF "clickbait" \in f
    THEN [val |-> 0, norm |-> norm, steps |-> ClickbaitSteps, seen |-> seen]
    ELSE ClickbaitReturn(seen, normalize_score(seen.normalized_score, norm, f))

calculate_clickbait_score(text, norm, f) ==
    ClickbaitScore(norm, f,
        ClickbaitRaw(text, analyze_patterns(patterns, text, "clickbait", f)))

\* An argument of analyze_text: a str, or a value of another type.
Str(t) == [type |-> "str", val |-> t]
NonStr(type) == [type |-> type, val |-> <<>>]

ZeroRecord == [sensationalism |-> 0, writingStyle |-> 0, clickbait |-> 0]

Keys == {"sensationalism", "writingStyle", "clickbait"}

NoDbg ==
    [scored |-> FALSE, text |-> <<>>, has_malayalam |-> FALSE,
     ws |-> [pre_hit |-> FALSE, stats |-> ZeroStats, style_score |-> 0,
             length_factor |-> 0,
             diversity_factor |-> 0, combined_score |-> 0],
     cb |-> [total_score |-> 0, match_count |-> 0, max_observed |-> 0,
             normalized_score |-> 0],
     writing_style |-> 0, clickbait_score |-> 0, sensationalism |-> 0]

\* Test written "not text": the text is not stripped.
IsEmptyUnstripped(t) == t = <<>>

\* Test with the minimum length of the earlier variants of the scorer.
IsShorterThanTen(t) == StrLen(Strip(t)) < 10

\* not text.strip()
IsBlank(t) == Strip(t) = <<>>

\* has_malayalam branch of analyze_text: the raw sensationalism
BlendSensationalism(text, writing_style, clickbait_score, f) ==
    IF HasMalayalam(text)
    THEN LET sens == analyze_patterns(patterns, text, "sensationalism", f)
             sensationalism == (sens.score * 100) \div MAX_SENS
         IN  (sensationalism * 6) \div 10 + (clickbait_score * 4) \div 10
    ELSE (clickbait_score * 7) \div 10
         + ((MAX_SCORE * Scale - writing_style) * 3) \div 10

\* The dict of the three values, n1, n2, n3 being the _normalize_score calls
DictOf(n1, n2, n3) ==
    [rec |-> [sensationalism |-> n1.val, writingStyle |-> n2.val,
              clickbait |-> n3.val],
     norm |-> n3.cache]

NormalizeThird(clickbait_score, f, n1, n2) ==
    DictOf(n1, n2, normalize_score(clickbait_score, n2.cache, f))

NormalizeSecond(writing_style, clickbait_score, f, n1) ==
    NormalizeThird(clickbait_score, f, n1, normalize_score(writing_style, n1.cache, f))

\* The dict with the raw sensationalism blend, not normalized.
ReturnDictRawSensationalism(sensationalism, writing_style, clickbait_score, norm, f) ==
    NormalizeSecond(writing_style, clickbait_score, f,
                    [val |-> sensationalism, cache |-> norm])

\* The dict analyze_text returns, and the cache after building it
ReturnDict(sensationalism, writing_style, clickbait_score, norm, f) ==
    NormalizeSecond(writing_style, clickbait_score, f,
                    normalize_score(sensationalism, norm, f))

\* The locals of analyze_text after the three scores are computed
Locals(text, ws, cb, sensationalism) ==
    [scored |-> TRUE, text |-> text, has_malayalam |-> HasMalayalam(text),
     ws |-> ws.seen, cb |-> cb.seen,
     writing_style |-> ws.val, clickbait_score |-> cb.val,
     sensationalism |-> sensationalism]

\* The return of analyze_text, ret being the dict and the cache after it
Returned(ws, cb, seen, ret) ==
    [exc |-> FALSE, rec |-> ret.rec, pre |-> ws.pre, norm |-> ret.norm,
     steps |-> ws.steps \cup cb.steps \cup {"_normalize_score"}, dbg |-> seen]

\* analyze_text from the blend on.  A raise of the try block itself happens
\* after the three scores are computed.
Blended(ws, cb, f, seen) ==
    IF "analyze_text" \in f
    THEN [exc |-> TRUE, rec |-> <<>>, pre |-> ws.pre, norm |-> cb.norm,
          steps |-> ws.steps \cup cb.steps, dbg |-> seen]
    ELSE Returned(ws, cb, seen,
                  ReturnDict(seen.sensationalism, ws.val, cb.val, cb.norm, f))

\* analyze_text after clickbait_score = self.calculate_clickbait_score(text)
AfterClickbait(text, f, ws, cb) ==
    Blended(ws, cb, f,
            Locals(text, ws, cb, BlendSensationalism(text, ws.val, cb.val, f)))

\* analyze_text after writing_style = self.analyze_writing_style(text)
AfterWritingStyle(text, f, ws) ==
    AfterClickbait(text, f, ws, calculate_clickbait_score(text, ws.norm, f))

\* analyze_text after text = text[:3000]
Scored(text, pre, norm, f) ==
    AfterWritingStyle(text, f, analyze_writing_style(text, pre, norm, f))

\* The try block of analyze_text: exc is TRUE when it raises.
AnalyzeBody(arg, pre, norm, f) ==
    IF arg.type # "str" \/ IsBlank(arg.val)
    THEN [exc |-> FALSE, rec |-> ZeroRecord, pre |-> pre, norm |-> norm,
          steps |-> {}, dbg |-> NoDbg]
    ELSE Scored(Prefix(arg.val, MAX_TEXT_LENGTH), pre, norm, f)

\* No handler: the exception leaves analyze_text.
Propagate(out) == out

\* except Exception of analyze_text
CatchAll(out) ==
    IF out.exc THEN [out EXCEPT !.exc = FALSE, !.rec = ZeroRecord] ELSE out

analyze_text(arg, pre, norm, f) == CatchAll(AnalyzeBody(arg, pre, norm, f))

\* analyze_text on a newly constructed analyzer, no step raising
Fresh(arg) == analyze_text(arg, <<>>, <<>>, {}).rec

---------------------------------------------------------------------------
(* health_check *)

\* "This is a test sentence."
HealthSample ==
    << Run("X", 1), Run("x", 3), Run("sp", 1), Run("x", 2), Run("sp", 1),
       Run("x", 1), Run("sp", 1), Run("y", 1), Run("x", 2), Run("y", 1),
       Run("sp", 1), Run("x", 8), Run("dot", 1) >>

\* No health_check made yet.
NoHealth ==
    [status |-> "none", analyzer_initialized |-> FALSE,
     test_analysis_successful |-> FALSE, result |-> <<>>,
     threw |-> FALSE, raised |-> FALSE]

\* Status taken from the scores: an all-zero record reported as a failure.
HealthStatusFromScores(out) ==
    IF out.exc \/ out.rec = ZeroRecord THEN "unhealthy" ELSE "healthy"

\* "healthy" from the try block, "unhealthy" from the except block
HealthStatus(out) == IF out.exc THEN "unhealthy" ELSE "healthy"

\* all(k in result for k in ['sensationalism', 'writingStyle', 'clickbait'])
HasAllKeys(rec) == Keys \subseteq DOMAIN rec

\* The dict health_check returns, out being its analyze_text call; result is
\* the local of that name, threw records whether the call raised, and raised
\* whether health_check did.
health_check(out) ==
    [status |-> HealthStatus(out),
     analyzer_initialized |-> ~out.exc,
     test_analysis_successful |-> ~out.exc /\ HasAllKeys(out.rec),
     result |-> out.rec,
     threw |-> out.exc, raised |-> FALSE]

---------------------------------------------------------------------------
(* The arguments the callers pass *)

\* The run lengths tried for each kind: short texts, texts at the 1000 and the
\* 3000 code point marks, enough matches to saturate a score, and the runs of
\* four periods and of three exclamation marks.
Counts(k) ==
    CASE k = "sp" -> {1, 3000}
      [] k = "x" -> {1, 7, 970, 2996}
      [] k = "ka" -> {1, 3}
      [] k = "dot" -> {1, 4}
      [] k = "bang" -> {3}
      [] k = "viral" -> {1, 5, 6, 25}
      [] k = "m_padhanam" -> {1, 2}
      [] k = "m_bhayam" -> {1, 23}
      [] OTHER -> {1}

RunChoices == UNION {{Run(k, n) : n \in Counts(k)} : k \in Kinds}

\* One representation per str: no two adjacent runs of one kind.
Canonical(t) == \A i \in 1..(Len(t) - 1) : t[i].k # t[i + 1].k

Texts == UNION {{t \in [1..n -> RunChoices] : Canonical(t)} : n \in 0..MaxRuns}

NonStrings == {NonStr("NoneType"), NonStr("int")}

Inputs == {Str(t) : t \in Texts} \cup NonStrings

\* The requests of the service run: blank, short, hit and no-hit texts in
\* both scripts, and over-length texts.
Requests ==
    { NonStr("NoneType"),
      Str(<<>>),
      Str(<<Run("sp", 1)>>),
      Str(<<Run("x", 1)>>),
      Str(<<Run("viral", 1)>>),
      Str(<<Run("m_viral", 1)>>),
      Str(<<Run("X", 1), Run("sp", 1), Run("x", 1), Run("dot", 1)>>),
      Str(<<Run("x", 7), Run("m_bhayam", 1)>>),
      Str(<<Run("m_padhanam", 2), Run("dot", 1), Run("ka", 3)>>),
      Str(<<Run("m_bhayam", 23)>>),
      Str(<<Run("x", 2996), Run("viral", 1)>>),
      Str(<<Run("sp", 3000), Run("viral", 1)>>) }

\* The requests of the run in which steps raise.
FaultRequests ==
    { NonStr("NoneType"),
      Str(<<Run("sp", 1)>>),
      Str(<<Run("viral", 1)>>),
      Str(<<Run("x", 7), Run("m_bhayam", 1)>>) }

FaultSets == {f \in SUBSET FaultPoints : Cardinality(f) <= MaxFaults}

---------------------------------------------------------------------------
(* The state machine *)

\* _ANALYZER_INSTANCE = None
NoInstance == 0

\* The thread that imports the module, and the callers of get_analyzer
Loader == 0
Callers == 1..MaxCallers

IdleCaller == [pc |-> "idle", new |-> NoInstance, got |-> NoInstance, calls |-> 0]

Threads == 1..MaxThreads

\* A thread outside analyze_text, and the locals of no call
IdleThread ==
    [pc |-> "idle", miss |-> FALSE, arg |-> NonStr("NoneType")]

NoLocals ==
    [text |-> <<>>, p |-> EmptyPreprocessed, writing_style |-> 0,
     clickbait_score |-> 0, sensationalism |-> 0, rec |-> ZeroRecord]

\* No direct call of a method made.
NoCall ==
    [method |-> "none", text |-> <<>>, pattern_type |-> "",
     ret |-> <<>>, raised |-> FALSE]

\* The values of the variables of the endpoints and services before their
\* first request.

\* No POST /api/writing-style served yet.
NoResponse == [status |-> 0, detail |-> "", content |-> <<>>, body |-> <<>>,
               analyzed |-> FALSE]

\* No session: _session = None, self._session = None
NoSession == 0

\* The NewsAnalysisService objects: the one of the lifespan of src/main.py
\* and the one of the router module.
Services == {"app.state.news_service", "news_analysis_service"}

\* No session handed out yet.
NoHanded == [by |-> "none", session |-> NoSession, was_closed |-> FALSE]

\* An empty cache of analysis results.
NoEntries == <<>>

\* No analyze_news call made yet.
NoNews == [query |-> [blank |-> TRUE, n |-> 0], result |-> <<>>, source |-> "none"]

\* No URLAnalysisResponse built yet.
NoUrlResponse == [built |-> FALSE, raised |-> "none"]

\* No request to the image endpoint served yet.
NoImage == [source |-> "none", status |-> 0, path |-> 0, failure |-> "none"]

\* No request served by the endpoints and services around the analyzer.
EndpointsIdle ==
    /\ http = NoResponse
    /\ memory_cache = NoEntries
    /\ disk_cache = NoEntries
    /\ news = NoNews
    /\ http_session = NoSession
    /\ closed = {}
    /\ svc_session = [s \in Services |-> NoSession]
    /\ handed = NoHanded
    /\ sessions = 0
    /\ cleaning = FALSE
    /\ url_response = NoUrlResponse
    /\ temp_files = {}
    /\ tmp_count = 0
    /\ image = NoImage

\* Both caches empty, no call made.
NoCalls ==
    /\ th = [t \in Threads |-> IdleThread]
    /\ loc = [t \in Threads |-> NoLocals]
    /\ preCache = <<>>
    /\ normCache = <<>>
    /\ pc = "idle"
    /\ input = NonStr("NoneType")
    /\ faults = {}
    /\ result = ZeroRecord
    /\ raised = FALSE
    /\ steps = {}
    /\ dbg = NoDbg
    /\ raising = 0
    /\ evicted = {}
    /\ reloaded = FALSE
    /\ health = NoHealth
    /\ call = NoCall
    /\ EndpointsIdle

\* The analyzer after construction and the module after its load: the
\* Loader's get_analyzer call built the one analyzer.
Init ==
    /\ NoCalls
    /\ malformed = {}
    /\ patterns = PatternBank
    /\ instance = 1
    /\ built = 1
    /\ loaded = TRUE
    /\ ga = [t \in {Loader} \cup Callers |->
               IF t = Loader THEN [IdleCaller EXCEPT !.got = 1, !.calls = 1]
               ELSE IdleCaller]

\* The analyzer and the record of the last call after analyze_text(arg)
\* came back as out, the steps in f having raised.
Returns(arg, f, out) ==
    /\ preCache' = out.pre
    /\ normCache' = out.norm
    /\ pc' = "returned"
    /\ input' = arg
    /\ faults' = f
    /\ result' = out.rec
    /\ raised' = out.exc
    /\ steps' = out.steps
    /\ dbg' = out.dbg
    /\ raising' = IF f = {} THEN raising ELSE raising + 1
    /\ LET dropped == {preCache[i].key : i \in 1..Len(preCache)}
                       \ {out.pre[i].key : i \in 1..Len(out.pre)}
       IN  evicted' = IF dropped = {} THEN evicted ELSE dropped
    /\ reloaded' = (out.dbg.scored /\ ~out.dbg.ws.pre_hit
                    /\ out.dbg.text \in evicted)
    /\ patterns' = IF out.dbg.scored
                   THEN PatternsAfterScoring(patterns, out.dbg.has_malayalam)
                   ELSE patterns
    /\ UNCHANGED <<instance, built, loaded, ga, th, loc>>

\* One call analyze_text(arg) on the shared analyzer, the steps in f raising.
Call(arg, f) ==
    \E out \in {analyze_text(arg, preCache, normCache, f)} :
        /\ Returns(arg, f, out)
        /\ health' = health
        /\ UNCHANGED serviceVars

\* One call health_check(), the steps in f raising in its analyze_text call.
HealthCheck(f) ==
    \E out \in {analyze_text(Str(HealthSample), preCache, normCache, f)} :
        /\ Returns(Str(HealthSample), f, out)
        /\ health' = health_check(out)
        /\ UNCHANGED serviceVars

\* A liveness probe of the hosting service.
CheckHealth == HealthCheck({})

\* A call analyze_text(arg) by a caller of the shared analyzer.
AnalyzeText == \E arg \in Requests : Call(arg, {})

Next == AnalyzeText

Spec == Init /\ [][Next]_vars

\* The first call on a new analyzer, over the family of texts.
AnalyzeFirst == pc = "idle" /\ \E arg \in Inputs : Call(arg, {})

NextTexts == AnalyzeFirst

SpecTexts == Init /\ [][NextTexts]_vars

\* A request during which no step raises, in the run in which steps may.
AnalyzeTextQuiet == \E arg \in FaultRequests : Call(arg, {})

\* A request during which some steps raise.
AnalyzeTextRaising ==
    /\ raising < MaxRaisingCalls
    /\ \E arg \in FaultRequests : \E f \in FaultSets \ {{}} : Call(arg, f)

NextFault == AnalyzeTextQuiet \/ AnalyzeTextRaising

SpecFault == Init /\ [][NextFault]_vars

\* A liveness probe during which some steps raise.
CheckHealthRaising ==
    /\ raising < MaxRaisingCalls
    /\ \E f \in FaultSets \ {{}} : HealthCheck(f)

\* The probes of the hosting service, quiet or with steps that raise, among
\* the requests.
NextProbe == AnalyzeTextQuiet \/ CheckHealth \/ CheckHealthRaising

SpecProbe == Init /\ [][NextProbe]_vars

---------------------------------------------------------------------------
(* The load of the module and the callers of get_analyzer *)

\* The module body after line 15: no analyzer yet, line 324 not yet run.
InitLoad ==
    /\ NoCalls
    /\ malformed = {}
    /\ patterns = <<>>
    /\ instance = NoInstance
    /\ built = 0
    /\ loaded = FALSE
    /\ ga = [t \in {Loader} \cup Callers |-> IdleCaller]

\* Callers that reach get_analyzer while the module body is still running.
MayCallDuringImport(t) == TRUE

\* A caller has get_analyzer only from the imported module: the Loader runs
\* it at line 324, the others after the module body has run to its end.
MayCall(t) == t = Loader \/ loaded

\* t enters get_analyzer
GaCall(t) ==
    /\ ga[t].pc = "idle"
    /\ MayCall(t)
    /\ IF t = Loader THEN ~loaded /\ ga[t].calls = 0 ELSE ga[t].calls < MaxGetCalls
    /\ ga' = [ga EXCEPT ![t].pc = "test"]
    /\ UNCHANGED <<serviceVars, scoringVars, patterns, instance, built, loaded>>

\* if _ANALYZER_INSTANCE is None
GaTest(t) ==
    /\ ga[t].pc = "test"
    /\ ga' = [ga EXCEPT ![t].pc =
                 IF instance = NoInstance THEN "construct" ELSE "return"]
    /\ UNCHANGED <<serviceVars, scoringVars, patterns, instance, built, loaded>>

\* EnhancedMalayalamAnalyzer(): __init__ runs _compile_patterns
GaConstruct(t) ==
    /\ ga[t].pc = "construct"
    /\ built' = built + 1
    /\ patterns' = compile_patterns(PatternBank, malformed)
    /\ ga' = [ga EXCEPT ![t].pc = "assign", ![t].new = built + 1]
    /\ UNCHANGED <<serviceVars, scoringVars, instance, loaded>>

\* _ANALYZER_INSTANCE = the new analyzer
GaAssign(t) ==
    /\ ga[t].pc = "assign"
    /\ instance' = ga[t].new
    /\ ga' = [ga EXCEPT ![t].pc = "return"]
    /\ UNCHANGED <<serviceVars, scoringVars, patterns, built, loaded>>

\* return _ANALYZER_INSTANCE
GaReturn(t) ==
    /\ ga[t].pc = "return"
    /\ ga' = [ga EXCEPT ![t].pc = IF t = Loader THEN "bind" ELSE "idle",
                        ![t].got = instance,
                        ![t].calls = ga[t].calls + 1]
    /\ UNCHANGED <<serviceVars, scoringVars, patterns, instance, built, loaded>>

\* Line 324, _ANALYZER_INSTANCE = get_analyzer(), ends the module body.
LoadBind ==
    /\ ga[Loader].pc = "bind"
    /\ instance' = ga[Loader].got
    /\ loaded' = TRUE
    /\ ga' = [ga EXCEPT ![Loader].pc = "idle"]
    /\ UNCHANGED <<serviceVars, scoringVars, patterns, built>>

NextLoad ==
    \/ \E t \in {Loader} \cup Callers :
          GaCall(t) \/ GaTest(t) \/ GaConstruct(t) \/ GaAssign(t) \/ GaReturn(t)
    \/ LoadBind

SpecLoad == InitLoad /\ [][NextLoad]_vars

---------------------------------------------------------------------------
(* Concurrent analyze_text calls on the shared analyzer.  A thread can be  *)
(* switched between any two steps; a call through an lru_cache is a lookup *)
(* under the cache's lock, then on a miss the body outside the lock, then  *)
(* the insertion under the lock, which leaves the cache alone when the key *)
(* was inserted in the meantime.                                           *)

\* The requests of the concurrent run: blank, Latin with a clickbait match,
\* and with Malayalam.
ThreadRequests ==
    { Str(<<Run("sp", 1)>>),
      Str(<<Run("viral", 1)>>),
      Str(<<Run("x", 7), Run("m_bhayam", 1)>>) }

\* Locals kept on the analyzer instead of in the frame of the call.
SlotShared(t) == 1

\* The locals of analyze_text belong to the call: one frame per thread.
Slot(t) == t

\* The insertion after a miss: none when the key is in the cache by now.
LruStore(cache, key, val, cap) ==
    IF CacheIndex(cache, key) > 0 THEN cache ELSE LruMiss(cache, key, val, cap).cache

NormStages == {"ws_norm", "cb_norm", "n1", "n2", "n3"}

NextStage(stage) ==
    CASE stage = "pre" -> "ws_norm"
      [] stage = "ws_norm" -> "cb_norm"
      [] stage = "cb_norm" -> "n1"
      [] stage = "n1" -> "n2"
      [] stage = "n2" -> "n3"
      [] stage = "n3" -> "done"

\* The argument of the _normalize_score call of a stage, l being the locals
StageScore(stage, l) ==
    CASE stage = "ws_norm" ->
            WritingStyleFactors(l.text, FALSE,
                calculate_text_stats(l.p.sentences, l.p.words, {}),
                analyze_patterns(patterns, l.text, "writing_style", {})).combined_score
      [] stage = "cb_norm" ->
            ClickbaitRaw(l.text,
                analyze_patterns(patterns, l.text, "clickbait", {})).normalized_score
      [] stage = "n1" -> l.sensationalism
      [] stage = "n2" -> l.writing_style
      [] stage = "n3" -> l.clickbait_score

\* The locals after the cached call of a stage returned value
Bind(stage, l, value) ==
    CASE stage = "pre" -> [l EXCEPT !.p = value]
      [] stage = "ws_norm" -> [l EXCEPT !.writing_style = value]
      [] stage = "cb_norm" ->
            [l EXCEPT !.clickbait_score = value,
                      !.sensationalism =
                          BlendSensationalism(l.text, l.writing_style, value, {})]
      [] stage = "n1" -> [l EXCEPT !.rec.sensationalism = value]
      [] stage = "n2" -> [l EXCEPT !.rec.writingStyle = value]
      [] stage = "n3" -> [l EXCEPT !.rec.clickbait = value]

\* Thread t goes on with value as the result of its cached call.
Advance(t, value) ==
    /\ th' = [th EXCEPT ![t].pc = NextStage(th[t].pc), ![t].miss = FALSE]
    /\ loc' = [loc EXCEPT ![Slot(t)] = Bind(th[t].pc, loc[Slot(t)], value)]

\* Thread t has missed: it runs the body outside the lock.
Missed(t) ==
    /\ th' = [th EXCEPT ![t].miss = TRUE]
    /\ loc' = loc

\* Thread t enters analyze_text(arg): validation and text[:3000].
Enter(t, arg) ==
    /\ th[t].pc = "idle"
    /\ IF arg.type # "str" \/ IsBlank(arg.val)
       THEN /\ th' = [th EXCEPT ![t].pc = "done", ![t].arg = arg]
            /\ loc' = [loc EXCEPT ![Slot(t)] = NoLocals]
       ELSE /\ th' = [th EXCEPT ![t].pc = "pre", ![t].arg = arg]
            /\ loc' = [loc EXCEPT ![Slot(t)] =
                         [NoLocals EXCEPT !.text = Prefix(arg.val, MAX_TEXT_LENGTH)]]
    /\ UNCHANGED <<serviceVars, preCache, normCache, lastCallVars, patterns, instance,
                   built, loaded, ga>>

\* The lookup of _preprocess_text(text), i being the index of the entry
PreLookupAt(t, i) ==
    IF i > 0
    THEN /\ preCache' = LruHit(preCache, i).cache
         /\ Advance(t, preCache[i].val)
    ELSE /\ preCache' = preCache
         /\ Missed(t)

PreLookup(t) ==
    /\ th[t].pc = "pre"
    /\ ~th[t].miss
    /\ PreLookupAt(t, CacheIndex(preCache, loc[Slot(t)].text))
    /\ UNCHANGED <<serviceVars, normCache, lastCallVars, patterns, instance, built,
                   loaded, ga>>

\* The insertion of _preprocess_text(text) after the body has run
PreStore(t) ==
    /\ th[t].pc = "pre"
    /\ th[t].miss
    /\ preCache' = LruStore(preCache, loc[Slot(t)].text,
                            PreprocessBody(loc[Slot(t)].text, {}), PreprocessCap)
    /\ Advance(t, PreprocessBody(loc[Slot(t)].text, {}))
    /\ UNCHANGED <<serviceVars, normCache, lastCallVars, patterns, instance, built,
                   loaded, ga>>

\* The lookup of _normalize_score(score), i being the index of the entry
NormLookupAt(t, i) ==
    IF i > 0
    THEN /\ normCache' = LruHit(normCache, i).cache
         /\ Advance(t, normCache[i].val)
    ELSE /\ normCache' = normCache
         /\ Missed(t)

NormLookup(t) ==
    /\ th[t].pc \in NormStages
    /\ ~th[t].miss
    /\ NormLookupAt(t, CacheIndex(normCache,
                                  NormalizeKey(StageScore(th[t].pc, loc[Slot(t)]))))
    /\ UNCHANGED <<serviceVars, preCache, lastCallVars, patterns, instance, built,
                   loaded, ga>>

\* The insertion of _normalize_score(score) after the body has run
NormStoreOf(t, score) ==
    /\ normCache' = LruStore(normCache, NormalizeKey(score),
                             NormalizeBody(score, {}), NormalizeCap)
    /\ Advance(t, NormalizeBody(score, {}))

NormStore(t) ==
    /\ th[t].pc \in NormStages
    /\ th[t].miss
    /\ NormStoreOf(t, StageScore(th[t].pc, loc[Slot(t)]))
    /\ UNCHANGED <<serviceVars, preCache, lastCallVars, patterns, instance, built,
                   loaded, ga>>

NextThreads ==
    \E t \in Threads :
        \/ \E arg \in ThreadRequests : Enter(t, arg)
        \/ PreLookup(t)
        \/ PreStore(t)
        \/ NormLookup(t)
        \/ NormStore(t)

SpecThreads == Init /\ [][NextThreads]_vars

---------------------------------------------------------------------------
(* Properties *)

InRange(v) == 0 <= v /\ v <= MAX_SCORE * Scale

\* C1: after any sequence of calls, each of the three values the last call
\* returned lies in [0, 100], for a str of any length and for a non-str.
C1_RangeInvariant ==
    pc = "returned" =>
        /\ InRange(result.sensationalism)
        /\ InRange(result.writingStyle)
        /\ InRange(result.clickbait)

\* C1 witness: a Malayalam text with 23 sensationalism matches, scored after
\* two other texts, whose raw blend is above 100 and whose returned value is
\* close to 100.
C1_Witness ==
    /\ pc = "returned"
    /\ input = Str(<<Run("m_bhayam", 23)>>)
    /\ Len(preCache) = PreprocessCap
    /\ dbg.sensationalism > MAX_SCORE * Scale
    /\ result.sensationalism > 99 * Scale

\* C2: no call propagates an exception: whichever steps raise, the call
\* returns a record with exactly the three keys, and when the try block of
\* analyze_text itself raises the record is all-zero.
C2_NeverPropagates ==
    pc = "returned" =>
        /\ ~raised
        /\ DOMAIN result = Keys
        /\ ("analyze_text" \in faults /\ dbg.scored => result = ZeroRecord)

\* C2 witness: the try block raised after the scores of a non-blank text
\* were computed, and the call returned the all-zero record.
C2_Witness ==
    /\ pc = "returned"
    /\ "analyze_text" \in faults
    /\ dbg.scored
    /\ dbg.clickbait_score > 0
    /\ ~raised
    /\ result = ZeroRecord

C4_InvalidInputNoScoring ==
    [][ (input'.type # "str" \/ StrLen(Strip(input'.val)) = 0)
          => /\ result' = ZeroRecord
             /\ ~raised'
             /\ steps' = {}
             /\ preCache' = preCache
             /\ normCache' = normCache ]_vars

\* C4 witness: a non-str argument after the caches were filled: the record is
\* all-zero and the caches still hold their entries.
C4_Witness ==
    /\ pc = "returned"
    /\ input.type # "str"
    /\ result = ZeroRecord
    /\ steps = {}
    /\ Len(preCache) = PreprocessCap
    /\ Len(normCache) = NormalizeCap

\* C5: whatever calls came before and whatever the caches hold, the record
\* returned for an argument is the record a new analyzer returns for it.
C5_Deterministic == pc = "returned" => result = Fresh(input)

\* C5 witness: a call that recomputed an entry the preprocessing cache had
\* dropped, with both caches full.
C5_Witness ==
    /\ pc = "returned"
    /\ reloaded
    /\ Len(preCache) = PreprocessCap
    /\ Len(normCache) = NormalizeCap
    /\ result = Fresh(input)

\* C5, second case: a call answered from the preprocessing cache.
C5_HitReached == pc = "returned" /\ dbg.scored /\ dbg.ws.pre_hit

\* The strs appended in C6: one unit of each kind.
Appendices == {<<Run(k, 1)>> : k \in Kinds}

\* C6 as claimed: the record for s is the record for s + s[3000:], and for s
\* of 3000 code points or more it is the record for s + u for every u.
C6_TruncationIdempotent_Claimed ==
    pc = "returned" /\ input.type = "str" =>
        /\ result = Fresh(Str(Concat(input.val, Suffix(input.val, MAX_TEXT_LENGTH))))
        /\ StrLen(input.val) >= MAX_TEXT_LENGTH =>
              \A u \in Appendices : result = Fresh(Str(Concat(input.val, u)))

\* C7 as claimed: the record for a str longer than 3000 code points is the
\* record for its first 3000 code points.
C7_OverLengthEqualsTruncated_Claimed ==
    pc = "returned" /\ input.type = "str" /\ StrLen(input.val) > MAX_TEXT_LENGTH
        => result = Fresh(Str(Prefix(input.val, MAX_TEXT_LENGTH)))

ClickbaitUnits == {"viral", "m_viral"}

\* t with one more occurrence of a clickbait pattern, put between two runs
Additions(t) ==
    {Concat(Concat(SubSeq(t, 1, i), <<Run(k, 1)>>), SubSeq(t, i + 1, Len(t))) :
        i \in 0..Len(t), k \in ClickbaitUnits}

\* The additions C8 is amended to: the text stays within 3000 code points,
\* does not become longer than 1000 and does not get its first Malayalam
\* character.
SameRegime(t, u) ==
    /\ StrLen(u) <= MAX_TEXT_LENGTH
    /\ (StrLen(u) > LONG_TEXT_LENGTH => StrLen(t) > LONG_TEXT_LENGTH)
    /\ (HasMalayalam(u) => HasMalayalam(t))

\* C8 as claimed: one more occurrence of a clickbait pattern never lowers the
\* clickbait value.
C8_Monotone_Claimed ==
    pc = "returned" /\ input.type = "str" =>
        \A u \in Additions(input.val) : Fresh(Str(u)).clickbait >= result.clickbait

\* C8 as amended: one more occurrence of a clickbait pattern does not lower
\* the clickbait value when the longer text has at most 3000 code points, is
\* longer than 1000 only if the shorter one is, and contains a Malayalam
\* character only if the shorter one does.
C8_MonotoneWithinRegime ==
    pc = "returned" /\ input.type = "str" =>
        \A u \in Additions(input.val) :
            SameRegime(input.val, u) => Fresh(Str(u)).clickbait >= result.clickbait

\* C8 witness: a text of at most 1000 code points with a clickbait match, to
\* which an occurrence is added within the regime, and the value rises.
C8_Witness ==
    /\ pc = "returned"
    /\ input.type = "str"
    /\ dbg.scored
    /\ dbg.cb.match_count > 0
    /\ \E u \in Additions(input.val) :
          /\ SameRegime(input.val, u)
          /\ Fresh(Str(u)).clickbait > result.clickbait

\* C9: the length factor min(100, avg_sentence_length * 5) is multiplied by
\* 0.8 and the diversity factor min(100, lexical_diversity * 200) by 1.2
\* exactly when more than 3 in 10 code points of the text are Malayalam.
C9_MalayalamFactors ==
    pc = "returned" /\ dbg.scored =>
        LET above == MalayalamChars(dbg.text) * 10 > 3 * StrLen(dbg.text)
            length_base == Min(MAX_SCORE * Scale, dbg.ws.stats.avg_sentence_length * 5)
            diversity_base == Min(MAX_SCORE * Scale, dbg.ws.stats.lexical_diversity * 200)
        IN  /\ dbg.ws.length_factor =
                  IF above THEN (length_base * 8) \div 10 ELSE length_base
            /\ dbg.ws.diversity_factor =
                  IF above THEN (diversity_base * 12) \div 10 ELSE diversity_base

\* C9 witness: a text with exactly 3 in 10 code points Malayalam, whose
\* factors are positive and left unchanged.
C9_Witness ==
    /\ pc = "returned"
    /\ dbg.scored
    /\ MalayalamChars(dbg.text) * 10 = 3 * StrLen(dbg.text)
    /\ dbg.ws.length_factor = dbg.ws.stats.avg_sentence_length * 5
    /\ dbg.ws.length_factor > 0
    /\ dbg.ws.diversity_factor > 0

\* C9, other side: a text above the ratio whose length factor was reduced.
C9_AboveReached ==
    /\ pc = "returned"
    /\ dbg.scored
    /\ MalayalamChars(dbg.text) * 10 > 3 * StrLen(dbg.text)
    /\ dbg.ws.length_factor > 0
    /\ dbg.ws.length_factor < dbg.ws.stats.avg_sentence_length * 5

\* C10 as claimed: the returned writingStyle is normalize(combined) and the
\* returned clickbait is normalize(clickbait_raw), each normalized once.
C10_NormalizedOnce_Claimed ==
    pc = "returned" /\ dbg.scored =>
        /\ result.writingStyle = NormalizeBody(dbg.ws.combined_score, {})
        /\ result.clickbait = NormalizeBody(dbg.cb.normalized_score, {})

\* C11 as claimed: for a text without a Malayalam character and without a
\* match of any rule, such as the sample of health_check, each of the three
\* returned values is normalize(0).
C11_NoHitBaseline_Claimed ==
    pc = "returned" /\ dbg.scored /\ ~dbg.has_malayalam
      /\ dbg.ws.style_score = 0 /\ dbg.cb.match_count = 0
        => /\ result.sensationalism = NormalizeBody(0, {})
           /\ result.writingStyle = NormalizeBody(0, {})
           /\ result.clickbait = NormalizeBody(0, {})

\* Texts without a match of a clickbait rule: short and long, in both scripts.
NoMatchTexts ==
    { <<Run("x", 1)>>, <<Run("ka", 1)>>, <<Run("x", 2996)>>,
      <<Run("m_bhayam", 23)>>, HealthSample }

\* C12: the clickbait value of a text of at most 1000 code points with at
\* least one occurrence of a clickbait rule is strictly greater than the
\* clickbait value of a text without a clickbait match.
C12_MatchAboveNoMatch ==
    pc = "returned" /\ dbg.scored /\ StrLen(input.val) <= LONG_TEXT_LENGTH
      /\ dbg.cb.match_count >= 1
        => \A u \in NoMatchTexts : result.clickbait > Fresh(Str(u)).clickbait

\* C12 witness: a short Malayalam text with one occurrence of a clickbait
\* rule, whose value is just above the value of a text without a match.
C12_Witness ==
    /\ pc = "returned"
    /\ input = Str(<<Run("m_viral", 1)>>)
    /\ dbg.cb.match_count = 1
    /\ result.clickbait > Fresh(Str(<<Run("x", 1)>>)).clickbait
    /\ result.clickbait < Fresh(Str(<<Run("x", 1)>>)).clickbait + Scale

\* C13: health_check never raises; its status is "healthy" with the flag
\* TRUE exactly when the result of its analyze_text call has the three keys,
\* and it is "unhealthy" only when that call raised.
C13_HealthCheckNeverRaises ==
    health # NoHealth =>
        /\ ~health.raised
        /\ health.status \in {"healthy", "unhealthy"}
        /\ (health.status = "healthy" =>
               health.test_analysis_successful = (Keys \subseteq DOMAIN health.result))
        /\ (health.status = "unhealthy" => health.threw)

\* C13 witness: a health_check during which the try block of analyze_text
\* raised: the call returned the all-zero record and the probe is healthy.
C13_Witness ==
    /\ pc = "returned"
    /\ input = Str(HealthSample)
    /\ "analyze_text" \in faults
    /\ health.status = "healthy"
    /\ health.result = ZeroRecord
    /\ health.test_analysis_successful
    /\ ~health.raised

\* C15: after any sequence of calls the preprocessing cache holds at most its
\* capacity (512 in the code) and the normalize cache at most its capacity
\* (256 in the code) entries, no key twice: an insertion into a full cache
\* drops an entry.
C15_CachesBounded ==
    /\ Len(preCache) <= PreprocessCap
    /\ Len(normCache) <= NormalizeCap
    /\ PreprocessCap <= PREPROCESS_MAXSIZE
    /\ NormalizeCap <= NORMALIZE_MAXSIZE
    /\ \A i, j \in 1..Len(preCache) : preCache[i].key = preCache[j].key => i = j
    /\ \A i, j \in 1..Len(normCache) : normCache[i].key = normCache[j].key => i = j

\* C15 witness: both caches are full and the last call, of a text not in
\* the preprocessing cache, made it drop an entry.
C15_Witness ==
    /\ pc = "returned"
    /\ dbg.scored
    /\ ~dbg.ws.pre_hit
    /\ evicted # {}
    /\ dbg.text \notin evicted
    /\ Len(preCache) = PreprocessCap
    /\ Len(normCache) = NormalizeCap

\* log(1 + n) in thousandths for n = 1, ..., 50
LogTable == <<
    693, 1099, 1386, 1609, 1792, 1946, 2079, 2197, 2303, 2398,
    2485, 2565, 2639, 2708, 2773, 2833, 2890, 2944, 2996, 3045,
    3091, 3135, 3178, 3219, 3258, 3296, 3332, 3367, 3401, 3434,
    3466, 3497, 3526, 3555, 3584, 3611, 3638, 3664, 3689, 3714,
    3738, 3761, 3784, 3807, 3829, 3850, 3871, 3892, 3912, 3932 >>

LogOnePlus(n) == LogTable[Min(n, Len(LogTable))]

\* The total C18 states: weight * (1 + log(1 + n)) for each rule with n >= 1
\* occurrences.
RECURSIVE DampenedTotal(_, _)
DampenedTotal(rules, text) ==
    IF rules = <<>> THEN 0
    ELSE (IF FindAll(Head(rules), text) > 0
          THEN Head(rules).weight * (Scale + LogOnePlus(FindAll(Head(rules), text)))
          ELSE 0)
         + DampenedTotal(Tail(rules), text)

\* C18 as claimed: in the match of a category each rule with n >= 1
\* occurrences adds weight * (1 + log(1 + n)) to the total, whether or not
\* the text has a Malayalam character.
C18_LogDampened_Claimed ==
    pc = "returned" /\ dbg.scored =>
        /\ dbg.cb.total_score = DampenedTotal(PatternBank.clickbait, dbg.text)
        /\ dbg.ws.style_score = DampenedTotal(PatternBank.writing_style, dbg.text)

\* C19 as claimed: max_observed of the clickbait computation is 500 exactly
\* when more than 3 in 10 code points of the text are Malayalam, else 400.
C19_MaxObservedByRatio_Claimed ==
    pc = "returned" /\ dbg.scored =>
        dbg.cb.max_observed =
            IF MalayalamChars(dbg.text) * 10 > 3 * StrLen(dbg.text)
            THEN MAX_OBSERVED_MALAYALAM ELSE MAX_OBSERVED_DEFAULT

\* C20 as claimed: the raw sensationalism is the blend of the sensationalism
\* rules, (score / 400) * 100 * 0.6 + clickbait * 0.4, exactly when more than
\* 3 in 10 code points of the text are Malayalam, and
\* clickbait * 0.7 + (100 - writingStyle) * 0.3 otherwise.
C20_SensationalismByRatio_Claimed ==
    pc = "returned" /\ dbg.scored =>
        dbg.sensationalism =
            IF MalayalamChars(dbg.text) * 10 > 3 * StrLen(dbg.text)
            THEN (((analyze_patterns(PatternBank, dbg.text, "sensationalism", {}).score
                    * 100) \div MAX_SENS) * 6) \div 10
                 + (dbg.clickbait_score * 4) \div 10
            ELSE (dbg.clickbait_score * 7) \div 10
                 + ((MAX_SCORE * Scale - dbg.writing_style) * 3) \div 10

\* C17: after any sequence of analyze_text and health_check calls the
\* pattern bank of the analyzer is the bank right after construction: the
\* same categories, the same rules in the same order, the same weights.
C17_PatternBankUnchanged == patterns = PatternBank

\* C17 witness: after a health_check and calls that filled both caches, a
\* Malayalam text was matched against the three categories, no step
\* raising, with a hit of a sensationalism rule.
C17_Witness ==
    /\ pc = "returned"
    /\ health # NoHealth
    /\ faults = {}
    /\ dbg.scored
    /\ dbg.has_malayalam
    /\ analyze_patterns(patterns, dbg.text, "sensationalism", {}).count > 0
    /\ Len(preCache) = PreprocessCap
    /\ Len(normCache) = NormalizeCap
    /\ patterns = PatternBank

\* C16: once the module is loaded, exactly one analyzer has been built
\* (_compile_patterns ran once), it is the one bound to _ANALYZER_INSTANCE,
\* and every get_analyzer call of every caller, under any interleaving,
\* returned it; before that at most one was built.
C16_BuiltOnce ==
    /\ built <= 1
    /\ loaded =>
          /\ built = 1
          /\ instance = 1
          /\ patterns = PatternBank
          /\ \A t \in {Loader} \cup Callers : ga[t].calls > 0 => ga[t].got = instance

\* C16 witness: two callers have got the analyzer, one of them twice, while
\* a third is inside get_analyzer, past its test of _ANALYZER_INSTANCE.
C16_Witness ==
    /\ loaded
    /\ built = 1
    /\ \E t, u, v \in Callers :
          /\ t # u /\ t # v /\ u # v
          /\ ga[t].calls = MaxGetCalls /\ ga[t].got = 1
          /\ ga[u].calls = 1 /\ ga[u].got = 1
          /\ ga[v].pc = "return"

\* C14: under any interleaving of concurrent analyze_text calls, a call that
\* has returned has returned the record of the same call run alone; each
\* call writes its own locals only, the caches hold for each key the value
\* of the body for that key, no key twice, and the pattern bank is as built.
C14_ConcurrentCallsAsAlone ==
    /\ \A t \in Threads :
          th[t].pc = "done" => loc[Slot(t)].rec = Fresh(th[t].arg)
    /\ \A i \in 1..Len(preCache) :
          preCache[i].val = PreprocessBody(preCache[i].key, {})
    /\ \A i \in 1..Len(normCache) :
          normCache[i].val = NormalizeBody(normCache[i].key, {})
    /\ \A i, j \in 1..Len(preCache) : preCache[i].key = preCache[j].key => i = j
    /\ \A i, j \in 1..Len(normCache) : normCache[i].key = normCache[j].key => i = j
    /\ patterns = PatternBank

\* C14 witness: a thread has returned the record of a scored text, equal to
\* the record of the call run alone, while another thread, scoring a
\* different text, has missed a score in the normalize cache, has computed
\* it, and is about to insert it although the key was inserted in between.
C14_Witness ==
    \E t, u \in Threads :
        /\ t # u
        /\ th[u].pc = "done"
        /\ loc[Slot(u)].rec # ZeroRecord
        /\ loc[Slot(u)].rec = Fresh(th[u].arg)
        /\ th[t].arg # th[u].arg
        /\ th[t].pc \in NormStages
        /\ th[t].miss
        /\ CacheIndex(normCache,
                      NormalizeKey(StageScore(th[t].pc, loc[Slot(t)]))) > 0

---------------------------------------------------------------------------
(* Punctuation runs (C21) *)

\* A run of three or more exclamation marks, or of four or more periods.
IsPunctuationRun(run) ==
    \/ run.k = "bang" /\ RunLen(run) >= 3
    \/ run.k = "dot" /\ RunLen(run) >= 4

HasPunctuationRun(t) == \E i \in 1..Len(t) : IsPunctuationRun(t[i])

\* The text with its punctuation runs taken out.
RECURSIVE WithoutPunctuationRuns(_)
WithoutPunctuationRuns(t) ==
    IF t = <<>> THEN <<>>
    ELSE IF IsPunctuationRun(Head(t)) THEN WithoutPunctuationRuns(Tail(t))
    ELSE Concat(<<Head(t)>>, WithoutPunctuationRuns(Tail(t)))

\* C21: a text with a run of three or more exclamation marks, or of four or
\* more periods, is matched by a rule of positive weight of the bank, and the
\* weighted score of that rule's category is greater for the text than for
\* the same text without the run.
C21_PunctuationRunScores_Claimed ==
    pc = "returned" /\ input.type = "str" /\ HasPunctuationRun(input.val)
      => \E c \in DOMAIN patterns :
            /\ \E i \in 1..Len(patterns[c]) :
                  /\ patterns[c][i].weight > 0
                  /\ FindAll(patterns[c][i], input.val) > 0
            /\ analyze_patterns(patterns, input.val, c, {}).score
                 > analyze_patterns(patterns, WithoutPunctuationRuns(input.val), c,
                                    {}).score

---------------------------------------------------------------------------
(* Direct calls of the methods _analyze_patterns and _preprocess_text on a *)
(* new analyzer                                                            *)

\* The category names a caller passes: the three of the bank, and names
\* that are not in it.
Categories == {"clickbait", "writing_style", "sensationalism", "headline", "Clickbait"}

\* The texts of the direct calls: the family Texts, and texts with blank
\* and padded fragments between sentence terminals.
MethodTexts ==
    Texts \cup
    { <<Run("sp", 1), Run("dot", 1), Run("sp", 1)>>,
      <<Run("sp", 1), Run("bang", 3), Run("sp", 1), Run("dot", 4)>>,
      <<Run("sp", 1), Run("x", 1), Run("sp", 1), Run("dot", 1), Run("sp", 1),
        Run("y", 1), Run("sp", 1)>>,
      <<Run("x", 1), Run("dot", 1), Run("sp", 1), Run("bang", 3), Run("ka", 1)>> }

\* self._analyze_patterns(text, pattern_type) on the analyzer
AnalyzePatterns ==
    /\ call = NoCall
    /\ \E text \in MethodTexts : \E pattern_type \in Categories :
          /\ call' = [method |-> "_analyze_patterns", text |-> text,
                      pattern_type |-> pattern_type,
                      ret |-> analyze_patterns(patterns, text, pattern_type, {}),
                      raised |-> FALSE]
          /\ patterns' = PatternsAfterMatch(patterns, pattern_type)
    /\ UNCHANGED <<scoringVars, malformed, endpointVars, instance, built, loaded, ga>>

\* self._preprocess_text(text) on the analyzer, through its lru_cache
PreprocessText ==
    /\ call = NoCall
    /\ \E text \in MethodTexts :
         \E p \in {preprocess_text(text, preCache, {})} :
             /\ call' = [method |-> "_preprocess_text", text |-> text,
                         pattern_type |-> "", ret |-> p.val, raised |-> FALSE]
             /\ preCache' = p.cache
    /\ UNCHANGED <<normCache, lastCallVars, th, loc, malformed, endpointVars,
                   patterns, instance, built, loaded, ga>>

NextMethods == AnalyzePatterns \/ PreprocessText

SpecMethods == Init /\ [][NextMethods]_vars

\* C22: a pattern match for a category name that is not in the bank returns
\* (0, 0) for every text, raises nothing and leaves the categories of the
\* bank as they were.
C22_UnknownCategoryZero ==
    call.method = "_analyze_patterns" /\ call.pattern_type \notin DOMAIN PatternBank
      => /\ call.ret = [score |-> 0, count |-> 0]
         /\ ~call.raised
         /\ DOMAIN patterns = DOMAIN PatternBank
         /\ patterns = PatternBank

\* C22 witness: a text with a match of a clickbait rule was matched against
\* the category "Clickbait", which the bank does not have.
C22_Witness ==
    /\ call.method = "_analyze_patterns"
    /\ call.pattern_type = "Clickbait"
    /\ call.text = <<Run("viral", 5)>>
    /\ analyze_patterns(patterns, call.text, "clickbait", {}).count = 5
    /\ call.ret.count = 0

\* Made only of whitespace and sentence terminals.
IsBlankOrTerminal(t) ==
    \A i \in 1..Len(t) : IsSpaceKind(t[i].k) \/ IsTerminalKind(t[i].k)

\* Non-empty, with no whitespace at either end.
IsTrimmed(s) ==
    /\ s # <<>>
    /\ ~IsSpaceKind(s[1].k)
    /\ ~IsSpaceKind(s[Len(s)].k)

\* C25: _preprocess_text raises nothing; for the empty string and for a
\* string of whitespace and sentence terminals only it returns two empty
\* sequences; every sentence it returns is non-empty and has no whitespace
\* at either end.
C25_PreprocessEdgeCases ==
    call.method = "_preprocess_text"
      => /\ ~call.raised
         /\ IsBlankOrTerminal(call.text)
              => call.ret.sentences = <<>> /\ call.ret.words = <<>>
         /\ \A i \in 1..Len(call.ret.sentences) : IsTrimmed(call.ret.sentences[i])

\* C25 witness: a text with blanks around its two sentences and around the
\* terminal between them gave the two sentences without the blanks.
C25_Witness ==
    /\ call.method = "_preprocess_text"
    /\ call.text = <<Run("sp", 1), Run("x", 1), Run("sp", 1), Run("dot", 1),
                     Run("sp", 1), Run("y", 1), Run("sp", 1)>>
    /\ call.ret.sentences = << <<Run("x", 1)>>, <<Run("y", 1)>> >>
    /\ call.ret.words = << <<Run("x", 1)>>, <<Run("y", 1)>> >>

\* C25: a text of terminals and blanks only was preprocessed.
C25_BlankReached ==
    /\ call.method = "_preprocess_text"
    /\ call.text = <<Run("sp", 1), Run("bang", 3), Run("sp", 1), Run("dot", 4)>>
    /\ call.ret = EmptyPreprocessed

---------------------------------------------------------------------------
(* The load of the module when re.compile rejects some of the source rules *)

RulePositions ==
    UNION {{<<c, i>> : i \in 1..Len(PatternBank[c])} : c \in DOMAIN PatternBank}

\* The sets of at most k source rules.
RECURSIVE MalformedSets(_)
MalformedSets(k) ==
    IF k = 0 THEN {{}}
    ELSE MalformedSets(k - 1)
           \cup {b \cup {r} : b \in MalformedSets(k - 1), r \in RulePositions}

\* The module body after line 15, with the rules re.compile will reject.
InitCompile ==
    /\ NoCalls
    /\ malformed \in MalformedSets(MaxMalformed)
    /\ patterns = <<>>
    /\ instance = NoInstance
    /\ built = 0
    /\ loaded = FALSE
    /\ ga = [t \in {Loader} \cup Callers |-> IdleCaller]

\* The requests served after the load: a match of clickbait rule 13, of
\* clickbait rule 5, and of sensationalism rule 2.
CompileRequests ==
    { Str(<<Run("viral", 1)>>),
      Str(<<Run("m_viral", 1)>>),
      Str(<<Run("x", 7), Run("m_bhayam", 1)>>) }

\* The first request on the analyzer the load built.
AnalyzeLoaded ==
    /\ loaded
    /\ pc = "idle"
    /\ \E arg \in CompileRequests : Call(arg, {})

NextCompile ==
    \/ GaCall(Loader) \/ GaTest(Loader) \/ GaConstruct(Loader)
    \/ GaAssign(Loader) \/ GaReturn(Loader)
    \/ LoadBind
    \/ AnalyzeLoaded

SpecCompile == InitCompile /\ [][NextCompile]_vars

\* The positions of category c that re.compile accepts.
Compiled(c) == {i \in 1..Len(PatternBank[c]) : <<c, i>> \notin malformed}

\* The rejected rules of category c before position i.
RejectedBefore(c, i) == Cardinality({j \in 1..(i - 1) : <<c, j>> \in malformed})

\* The matches of the text in category c by the rules that were accepted.
RECURSIVE MatchesOfCompiled(_, _, _)
MatchesOfCompiled(c, positions, t) ==
    IF positions = {} THEN 0
    ELSE LET i == CHOOSE j \in positions : TRUE
         IN  FindAll(PatternBank[c][i], t) + MatchesOfCompiled(c, positions \ {i}, t)

\* C23: when re.compile rejects rules during construction, construction
\* completes with a bank that has every category, and in each category
\* exactly the accepted rules, in their source order with their weights; a
\* request served afterwards is scored, with the matches of the accepted
\* rules.
C23_OnlyBadRuleDropped ==
    /\ built >= 1 =>
          /\ DOMAIN patterns = DOMAIN PatternBank
          /\ \A c \in DOMAIN PatternBank :
                /\ Len(patterns[c]) = Cardinality(Compiled(c))
                /\ \A i \in Compiled(c) :
                      patterns[c][i - RejectedBefore(c, i)] = PatternBank[c][i]
    /\ ga[Loader].pc = "assign" => ga[Loader].new = 1
    /\ pc = "returned" =>
          /\ ~raised
          /\ dbg.scored
          /\ dbg.cb.match_count
               = MatchesOfCompiled("clickbait", Compiled("clickbait"), input.val)

\* C23 witness: re.compile rejected clickbait rule 5 and writing_style rule
\* 3; the bank has the other 14 and 7 rules, clickbait rule 13 now at
\* position 12, and the request "viral" was scored with its one match.
C23_Witness ==
    /\ malformed = {<<"clickbait", 5>>, <<"writing_style", 3>>}
    /\ built = 1
    /\ Len(patterns.clickbait) = 14
    /\ Len(patterns.writing_style) = 7
    /\ Len(patterns.sensationalism) = 6
    /\ patterns.clickbait[12] = PatternBank.clickbait[13]
    /\ pc = "returned"
    /\ input = Str(<<Run("viral", 1)>>)
    /\ dbg.cb.match_count = 1

---------------------------------------------------------------------------
(* Errors absorbed by the step that encloses them (C24) *)

\* What the body of _normalize_score returns for a score in a call whose
\* raising steps are f.
NormalizedIn(score, f) ==
    IF "normalize" \in f THEN NEUTRAL_SCORE * Scale
    ELSE Max(0, Min(MAX_SCORE * Scale, Sigmoid(score)))

\* A call before the last one had a raising step: the lru_cache of
\* _normalize_score may hold the 50.0 its handler returned then.
EarlierCallRaised == raising > (IF faults = {} THEN 0 ELSE 1)

\* What _normalize_score returns for a score in the last call: the value of
\* its body in this call, or the value the body of an earlier call, raising
\* or not, left in its cache.
NormalizedValues(score) ==
    {NormalizedIn(score, faults)}
      \cup (IF EarlierCallRaised THEN {NEUTRAL_SCORE * Scale} ELSE {})
      \cup (IF "normalize" \in faults THEN {NormalizedIn(score, {})} ELSE {})

\* C24: in a call on a non-blank text in which steps below analyze_text
\* raise, _analyze_patterns returns (0, 0), analyze_writing_style returns
\* 50.0 and calculate_clickbait_score returns 0.0 when their bodies raise,
\* and analyze_text returns the record of the three values normalized from
\* these defaults and the steps that did not raise, not the all-zero record
\* of a failed call.
C24_ErrorAbsorbedByStep ==
    pc = "returned" /\ dbg.scored /\ faults # {} /\ "analyze_text" \notin faults
      => /\ ~raised
         /\ "patterns" \in faults
              => /\ dbg.ws.style_score = 0
                 /\ dbg.cb.total_score = 0
                 /\ dbg.cb.match_count = 0
         /\ "writing_style" \in faults => dbg.writing_style = NEUTRAL_SCORE * Scale
         /\ "clickbait" \in faults => dbg.clickbait_score = 0
         /\ ~dbg.has_malayalam
              => dbg.sensationalism
                   = (dbg.clickbait_score * 7) \div 10
                     + ((MAX_SCORE * Scale - dbg.writing_style) * 3) \div 10
         /\ result.writingStyle \in NormalizedValues(dbg.writing_style)
         /\ result.clickbait \in NormalizedValues(dbg.clickbait_score)
         /\ result.sensationalism \in NormalizedValues(dbg.sensationalism)
         /\ result # ZeroRecord

\* C24 witness: the bodies of analyze_writing_style and of
\* calculate_clickbait_score raised in a call on "viral"; the call returned
\* the values normalized from 50.0 and 0.0 and the blend of the two.
C24_Witness ==
    /\ pc = "returned"
    /\ faults = {"writing_style", "clickbait"}
    /\ input = Str(<<Run("viral", 1)>>)
    /\ dbg.cb.match_count = 1
    /\ dbg.writing_style = 50 * Scale
    /\ dbg.clickbait_score = 0
    /\ dbg.sensationalism = 15 * Scale
    /\ result.writingStyle = 50 * Scale
    /\ result.clickbait = 669
    /\ result.sensationalism = NormalizedIn(15 * Scale, {})
    /\ ~raised

---------------------------------------------------------------------------
(* POST /api/writing-style of src/main.py *)

\* A JSON body of the request: a dict with or without the key "content".
NoContent == [has |-> FALSE, content |-> <<>>]
Content(t) == [has |-> TRUE, content |-> t]

\* The bodies posted: no content field, an empty content, a blank content
\* and texts to score.
Bodies ==
    { NoContent,
      Content(<<>>),
      Content(<<Run("sp", 1)>>),
      Content(<<Run("viral", 1)>>),
      Content(<<Run("m_viral", 1)>>),
      Content(<<Run("x", 7), Run("m_bhayam", 1)>>),
      Content(<<Run("m_padhanam", 2), Run("dot", 1), Run("ka", 3)>>) }

\* query.get("content", "")
ContentOf(body) == IF body.has THEN body.content ELSE <<>>

\* raise HTTPException(status_code, detail)
HTTPException(status_code, detail) ==
    [raises |-> TRUE, status_code |-> status_code, detail |-> detail]

\* return JSONResponse(content=result)
JSONResponse(content) == [raises |-> FALSE, status_code |-> 200, content |-> content]

\* The try block of the endpoint for a body without content: lines 257-258
\* of src/main.py raise.
ContentRequired == HTTPException(400, "Content is required")

\* except Exception as e: raise HTTPException(status_code=500, detail=str(e)).
\* HTTPException is an Exception, so the handler takes the 400 of line 257
\* as well.
ExceptException(tried) ==
    IF tried.raises
    THEN HTTPException(500, <<"str", tried.status_code, tried.detail>>)
    ELSE tried

\* http_exception_handler: the response has the status of the exception.
http_exception_handler(body, exc) ==
    [status |-> exc.status_code, detail |-> exc.detail, content |-> <<>>,
     body |-> body, analyzed |-> FALSE]

\* The response of a request whose content was analyzed.
Analyzed(body, response) ==
    [status |-> response.status_code, detail |-> "", content |-> response.content,
     body |-> body, analyzed |-> TRUE]

\* One POST /api/writing-style with the body.
PostWritingStyle ==
    \E body \in Bodies :
        IF ContentOf(body) = <<>>
        THEN /\ http' = http_exception_handler(body, ExceptException(ContentRequired))
             /\ UNCHANGED <<scoringVars, patterns, instance, built, loaded, ga,
                            methodVars, newsVars, sessionVars, url_response,
                            imageVars>>
        ELSE \E out \in {analyze_text(Str(ContentOf(body)), preCache, normCache, {})} :
                /\ Returns(Str(ContentOf(body)), {}, out)
                /\ health' = health
                /\ http' = Analyzed(body, ExceptException(JSONResponse(out.rec)))
                /\ UNCHANGED <<methodVars, newsVars, sessionVars, url_response,
                               imageVars>>

NextHttp == PostWritingStyle

SpecHttp == Init /\ [][NextHttp]_vars

\* C26: a POST to /api/writing-style whose body has no content field, or an
\* empty content, is answered with status 400, and analyze_text is not
\* called for it.
C26_EmptyContent400_Claimed ==
    http # NoResponse /\ ContentOf(http.body) = <<>>
      => /\ http.status = 400
         /\ ~http.analyzed

---------------------------------------------------------------------------
(* NewsAnalysisService.analyze_news of src/app/services/news_analysis.py   *)
(* and its two caches.  CONFIDENCE is in tenths.                           *)

\* A result dict; the Malayalam explanation goes with the English one.
Result(isfake, confidence, explanation) ==
    [ISFAKE |-> isfake, CONFIDENCE |-> confidence, EXPLANATION_EN |-> explanation]

\* The responses analyze_news builds itself
EmptyQueryResponse == Result(1, 10, "Please provide some content for analysis.")
NoResultsResponse == Result(1, 9, "No reliable information found about this claim.")
SearchTimeoutResponse == Result(1, 8, "Search timeout. Please try again.")
AnalysisTimeoutResponse == Result(1, 10, "Analysis timeout. Please try again.")
CleanFailureResponse ==
    Result(1, 5, "System error: Failed to analyze response. Please try again.")
SystemErrorResponse ==
    Result(1, 10, "System error: Analysis failed. Please try again later.")

DefaultExplanation == "Analysis completed, but no detailed explanation available."

\* A value of a JSON object: a number, a string, or no such key
Num(n) == [type |-> "number", val |-> n, text |-> ""]
Text(t) == [type |-> "str", val |-> 0, text |-> t]
Missing == [type |-> "none", val |-> 0, text |-> ""]

\* response.text of Gemini: text without a JSON object, or a JSON object
NotJson == [json |-> FALSE, ISFAKE |-> Missing, CONFIDENCE |-> Missing,
            EXPLANATION_EN |-> Missing]
Json(isfake, confidence, explanation) ==
    [json |-> TRUE, ISFAKE |-> isfake, CONFIDENCE |-> confidence,
     EXPLANATION_EN |-> explanation]

\* The texts Gemini answers with: no JSON, a verdict outside {0, 1} or of
\* the wrong type, a confidence above 1, an explanation that is a verdict,
\* empty, the sentence of the cleaning failure, or missing.
GeminiTexts ==
    {NotJson} \cup
    { Json(isfake, Num(15), explanation) :
        isfake \in {Num(2), Text("1")},
        explanation \in {Text("The claim is false."), Text(""),
                         Text(CleanFailureResponse.EXPLANATION_EN), Missing} }

\* _clean_json_response
clean_json_response(text) ==
    IF ~text.json THEN CleanFailureResponse
    ELSE IF \/ text.ISFAKE.type # "number"
            \/ text.CONFIDENCE.type # "number"
            \/ text.EXPLANATION_EN.type # "str"
         THEN CleanFailureResponse
    ELSE Result(IF text.ISFAKE.val \in {0, 1} THEN text.ISFAKE.val ELSE 1,
                Max(0, Min(10, text.CONFIDENCE.val)),
                IF text.EXPLANATION_EN.text = "" THEN DefaultExplanation
                ELSE text.EXPLANATION_EN.text)

\* A query: blank (empty, or whitespace only), or the n-th claim
BlankQuery(n) == [blank |-> TRUE, n |-> n]
Claim(n) == [blank |-> FALSE, n |-> n]

Queries == {BlankQuery(0), BlankQuery(1)} \cup {Claim(n) : n \in 1..MaxClaims}

\* hashlib.md5(f"{query}{prompt_version}".encode()).hexdigest()
QueryHash(query) == <<"md5", query.n, "v3">>

\* cache[key] = value
Put(cache, key, value) ==
    [k \in DOMAIN cache \cup {key} |-> IF k = key THEN value ELSE cache[k]]

\* The cache without the entry of key
Drop(cache, key) == [k \in DOMAIN cache \ {key} |-> cache[k]]

\* What happens outside the service during one call: the translation is
\* empty or not, the two searches find results or not, building the context
\* raises or not, and Gemini times out, raises or answers with a text.
Environments ==
    { env \in [translated : BOOLEAN, found : BOOLEAN, context : {"ok", "raises"},
               gemini : {"timeout", "raises", "answers"}, text : GeminiTexts] :
        env.gemini # "answers" => env.text = NotJson }

\* Every result is stored.
ShouldCacheAlways(res) == TRUE

\* Line 402: cache only valid results
ShouldCache(res) ==
    res.EXPLANATION_EN # CleanFailureResponse.EXPLANATION_EN

\* What one call leaves: the dict returned, where it came from, the caches
Outcome(res, source, mem, disk) ==
    [result |-> res, source |-> source, mem |-> mem, disk |-> disk]

\* Lines 398-409, res being the cleaned response
Cached(key, mem, disk, res) ==
    IF ShouldCache(res)
    THEN Outcome(res, "analysis", Put(mem, key, res), Put(disk, key, res))
    ELSE Outcome(res, "analysis", mem, disk)

\* Lines 275-418: the call when neither cache has the query.  The two
\* fetches catch every exception, so the handler of lines 295-302 is not
\* reached.
Analysis(key, mem, disk, env) ==
    IF ~env.translated THEN Outcome(SystemErrorResponse, "fallback", mem, disk)
    ELSE IF ~env.found THEN Outcome(NoResultsResponse, "fallback", mem, disk)
    ELSE IF env.context = "raises"
         THEN Outcome(SystemErrorResponse, "fallback", mem, disk)
    ELSE IF env.gemini = "timeout"
         THEN Outcome(AnalysisTimeoutResponse, "fallback", mem, disk)
    ELSE IF env.gemini = "raises"
         THEN Outcome(SystemErrorResponse, "fallback", mem, disk)
    ELSE Cached(key, mem, disk, clean_json_response(env.text))

\* analyze_news(query, background_tasks)
analyze_news(query, mem, disk, env) ==
    IF query.blank THEN Outcome(EmptyQueryResponse, "fallback", mem, disk)
    ELSE IF QueryHash(query) \in DOMAIN mem
         THEN Outcome(mem[QueryHash(query)], "memory", mem, disk)
    ELSE IF QueryHash(query) \in DOMAIN disk
         THEN Outcome(disk[QueryHash(query)], "disk",
                      Put(mem, QueryHash(query), disk[QueryHash(query)]), disk)
    ELSE Analysis(QueryHash(query), mem, disk, env)

\* The variables the news service leaves alone
notNewsVars ==
    <<scoringVars, patterns, instance, built, loaded, ga, methodVars, http,
      sessionVars, url_response, imageVars>>

\* One analyze_news call
AnalyzeNews ==
    /\ \E query \in Queries : \E env \in Environments :
         \E out \in {analyze_news(query, memory_cache, disk_cache, env)} :
            /\ memory_cache' = out.mem
            /\ disk_cache' = out.disk
            /\ news' = [query |-> query, result |-> out.result, source |-> out.source]
    /\ UNCHANGED notNewsVars

\* An entry of the memory cache is older than its ttl of one hour.
MemoryExpires ==
    /\ \E key \in DOMAIN memory_cache : memory_cache' = Drop(memory_cache, key)
    /\ UNCHANGED <<disk_cache, news, notNewsVars>>

\* An entry of the disk cache is older than one day.
DiskExpires ==
    /\ \E key \in DOMAIN disk_cache : disk_cache' = Drop(disk_cache, key)
    /\ UNCHANGED <<memory_cache, news, notNewsVars>>

NextNews == AnalyzeNews \/ MemoryExpires \/ DiskExpires

SpecNews == Init /\ [][NextNews]_vars

\* The explanations of the responses analyze_news builds without a
\* validated answer of Gemini.
FallbackExplanations ==
    { EmptyQueryResponse.EXPLANATION_EN, NoResultsResponse.EXPLANATION_EN,
      SearchTimeoutResponse.EXPLANATION_EN, AnalysisTimeoutResponse.EXPLANATION_EN,
      CleanFailureResponse.EXPLANATION_EN, SystemErrorResponse.EXPLANATION_EN }

IsFallback(res) == res.EXPLANATION_EN \in FallbackExplanations

\* C27: after any sequence of analyze_news calls neither cache holds a
\* fallback response, and no call is answered from a cache with one.
C27_NoFallbackCached ==
    /\ \A key \in DOMAIN memory_cache : ~IsFallback(memory_cache[key])
    /\ \A key \in DOMAIN disk_cache : ~IsFallback(disk_cache[key])
    /\ news.source \in {"memory", "disk"} => ~IsFallback(news.result)

\* C27 witness: the cleaning of Gemini's answer to claim 1 failed and the
\* failure response was returned, while both caches hold a validated
\* result for claim 2 only.
C27_Witness ==
    /\ news.source = "analysis"
    /\ news.query = Claim(1)
    /\ news.result = CleanFailureResponse
    /\ DOMAIN memory_cache = {QueryHash(Claim(2))}
    /\ DOMAIN disk_cache = {QueryHash(Claim(2))}
    /\ disk_cache[QueryHash(Claim(2))].EXPLANATION_EN = DefaultExplanation

\* C27: a query was answered from the disk cache after its memory entry
\* expired.
C27_FromDisk ==
    /\ news.source = "disk"
    /\ QueryHash(news.query) \in DOMAIN memory_cache
    /\ news.result = Result(1, 10, "The claim is false.")

---------------------------------------------------------------------------
(* The shared aiohttp session of src/app/core/http_client.py and the       *)
(* session each NewsAnalysisService keeps                                  *)

\* The variables the session functions leave alone
notSessionVars ==
    <<scoringVars, patterns, instance, built, loaded, ga, methodVars, http,
      newsVars, url_response, imageVars>>

\* _session is None or _session.closed
NeedsSession == http_session = NoSession \/ http_session \in closed

\* _session after get_http_session(), which builds a ClientSession when
\* there is none or the one there is closed
SessionAfterGet == IF NeedsSession THEN sessions + 1 ELSE http_session

\* The record of a session handed out by a function
Handed(by, session, closedNow) ==
    [by |-> by, session |-> session, was_closed |-> session \in closedNow]

\* await get_http_session()
GetHttpSession ==
    /\ NeedsSession => sessions < MaxSessions
    /\ http_session' = SessionAfterGet
    /\ sessions' = IF NeedsSession THEN sessions + 1 ELSE sessions
    /\ handed' = Handed("get_http_session", SessionAfterGet, closed)
    /\ UNCHANGED <<closed, svc_session, cleaning, notSessionVars>>

\* cleanup_http_session() up to await _session.close(): nothing to do when
\* there is no session or it is closed already.
CleanupClose ==
    /\ ~cleaning
    /\ IF http_session # NoSession /\ http_session \notin closed
       THEN /\ closed' = closed \cup {http_session}
            /\ cleaning' = TRUE
       ELSE UNCHANGED <<closed, cleaning>>
    /\ UNCHANGED <<http_session, svc_session, handed, sessions, notSessionVars>>

\* cleanup_http_session() after the await: _session = None
CleanupReset ==
    /\ cleaning
    /\ cleaning' = FALSE
    /\ http_session' = NoSession
    /\ UNCHANGED <<closed, svc_session, handed, sessions, notSessionVars>>

\* self._session kept although it is closed: "not self._session" is False
\* for every ClientSession.
KeepsSession(svc) == svc_session[svc] # NoSession

\* NewsAnalysisService.get_session() of the service svc
GetSession(svc) ==
    IF KeepsSession(svc)
    THEN /\ handed' = Handed("get_session", svc_session[svc], closed)
         /\ UNCHANGED <<http_session, closed, svc_session, sessions, cleaning,
                        notSessionVars>>
    ELSE /\ NeedsSession => sessions < MaxSessions
         /\ http_session' = SessionAfterGet
         /\ sessions' = IF NeedsSession THEN sessions + 1 ELSE sessions
         /\ svc_session' = [svc_session EXCEPT ![svc] = SessionAfterGet]
         /\ handed' = Handed("get_session", SessionAfterGet, closed)
         /\ UNCHANGED <<closed, cleaning, notSessionVars>>

NextSession ==
    \/ GetHttpSession
    \/ CleanupClose
    \/ CleanupReset
    \/ \E svc \in Services : GetSession(svc)

SpecSession == Init /\ [][NextSession]_vars

\* C28: in any sequence of get_http_session, cleanup_http_session and
\* get_session calls, a session handed out by get_http_session or by
\* get_session is not a closed session.
C28_NeverHandsOutClosed_Claimed ==
    handed.by # "none" => ~handed.was_closed

---------------------------------------------------------------------------
(* URLAnalysisService.analyze_url of src/app/services/url_analysis.py.     *)
(* A probability is in thousandths.  The netloc of a URL is a sequence of  *)
(* pieces; a trusted domain occurs in it exactly when it is one of them.   *)

\* A URL: scheme present or not, the pieces of its netloc, upper case or not
Url(scheme, netloc, upper) == [scheme |-> scheme, netloc |-> netloc, upper |-> upper]

Urls ==
    { Url(TRUE, <<"www.", "manoramaonline.com">>, FALSE),
      Url(TRUE, <<"mathrubhumi.com">>, TRUE),
      Url(TRUE, <<"manoramaonline.com", ".evil.example">>, FALSE),
      Url(FALSE, <<"manoramaonline.com">>, FALSE),
      Url(TRUE, <<"evil.example">>, FALSE),
      Url(TRUE, <<"192.168.0.1">>, FALSE) }

\* Two of self.trusted_domains, lines 30-83
TrustedDomains == {"manoramaonline.com", "mathrubhumi.com"}

\* urlparse(url).netloc.lower(): empty when the URL has no scheme
Netloc(url) == IF url.scheme THEN url.netloc ELSE <<>>

\* is_trusted_url: any(trusted in domain for trusted in self.trusted_domains)
is_trusted_url(url) ==
    \E i \in 1..Len(Netloc(url)) : Netloc(url)[i] \in TrustedDomains

\* The probabilities [p0, p1] of predict_proba
Probabilities ==
    {(i * 1000) \div MaxProbabilities : i \in 0..MaxProbabilities}
      \cup {499, 501, 999}

\* The pickled classifier: no file, a file whose load or prediction raises,
\* or a prediction with the probability of class 1.
Classifiers ==
    {[state |-> "missing", prediction |-> 0, p1 |-> 0],
     [state |-> "raises", prediction |-> 0, p1 |-> 0]}
      \cup [state : {"predicts"}, prediction : {-1, 1}, p1 : Probabilities]

\* check_safe_browsing: url_analysis.py never imports aiohttp (lines 1-11),
\* so aiohttp.ClientSession() at line 151 raises NameError inside the try
\* block and the handler of lines 154-157 returns the error dict.
check_safe_browsing(url) == [error |-> "Safe Browsing check failed"]

\* sb_result.get("matches")
Matches(sb_result) ==
    IF "matches" \in DOMAIN sb_result THEN sb_result.matches ELSE <<>>

\* The score of a trusted domain counted half.
TrustedBonusHalved(is_trusted) == IF is_trusted THEN 25 ELSE 0

\* Lines 172-174: score += 50 for a trusted domain
TrustedBonus(is_trusted) == IF is_trusted THEN 50 ELSE 0

\* score_url_trustworthiness
score_url_trustworthiness(safe_browsing, p1, is_trusted) ==
    LET flagged == Matches(safe_browsing) # <<>>
        score == (IF flagged THEN -50 ELSE 0)
                 - (IF p1 > 500 THEN (p1 * 50) \div 1000 ELSE 0)
                 + TrustedBonus(is_trusted)
        trust_score == Max(0, Min(100, 50 + score))
        reasons == (IF flagged THEN <<"Flagged by Google Safe Browsing">> ELSE <<>>)
                   \o (IF p1 > 500
                       THEN << <<"ML model confidence", (p1 * 100) \div 1000>> >>
                       ELSE <<>>)
                   \o (IF is_trusted THEN <<"Verified by trusted news database">>
                       ELSE <<>>)
    IN  [trust_score |-> trust_score,
         is_trustworthy |-> trust_score >= 50,
         reasons |-> reasons]

\* Lines 215-221
FinalDecision(sb_flag, p1, is_trusted) ==
    IF is_trusted THEN "Trusted URL (verified by trusted database)"
    ELSE IF sb_flag THEN "URL is Untrustworthy (flagged by Google Safe Browsing)"
    ELSE IF p1 > 500 THEN "URL is Possibly Phishing/Spam (ML model high probability)"
    ELSE "URL appears Trustworthy"

\* Lines 206-233, with the prediction and the probability of class 1
UrlResponse(url, prediction, p1, sb_result, trustworthiness) ==
    [built |-> TRUE, raised |-> "none", url |-> url,
     prediction |-> IF prediction = 1 THEN "Fake" ELSE "Legitimate",
     prediction_probabilities |-> <<1000 - p1, p1>>,
     google_safe_browsing_flag |-> Matches(sb_result) # <<>>,
     trusted |-> is_trusted_url(url),
     trust_score |-> trustworthiness.trust_score,
     is_trustworthy |-> trustworthiness.is_trustworthy,
     trust_reasons |-> trustworthiness.reasons,
     final_decision |->
         FinalDecision(Matches(sb_result) # <<>>, p1, is_trusted_url(url))]

\* analyze_url after the prediction
Analyzed_url(url, prediction, p1, sb_result) ==
    UrlResponse(url, prediction, p1, sb_result,
                score_url_trustworthiness(sb_result, p1, is_trusted_url(url)))

\* analyze_url: without the model file it raises; when the prediction
\* raises, prediction is None and the probabilities are [0, 0].
analyze_url(url, clf) ==
    IF clf.state = "missing"
    THEN [built |-> FALSE, raised |-> "FileNotFoundError"]
    ELSE IF clf.state = "raises"
    THEN [Analyzed_url(url, 0, 0, check_safe_browsing(url))
             EXCEPT !.prediction_probabilities = <<0, 0>>]
    ELSE Analyzed_url(url, clf.prediction, clf.p1, check_safe_browsing(url))

\* One analyze_url call
AnalyzeUrl ==
    /\ \E url \in Urls : \E clf \in Classifiers :
          url_response' = analyze_url(url, clf)
    /\ UNCHANGED <<scoringVars, patterns, instance, built, loaded, ga, methodVars,
                   http, newsVars, sessionVars, imageVars>>

NextUrl == AnalyzeUrl

SpecUrl == Init /\ [][NextUrl]_vars

TrustedVerdicts ==
    {"Trusted URL (verified by trusted database)", "URL appears Trustworthy"}

C29_Untrusted ==
    /\ url_response.built
    /\ ~url_response.trusted
    /\ url_response.final_decision
         = "URL is Possibly Phishing/Spam (ML model high probability)"
    /\ url_response.trust_score = 25
    /\ ~url_response.is_trustworthy

---------------------------------------------------------------------------
(* POST /analyze of src/app/api/v1/endpoints/image_analysis.py.            *)
(* temp_files is the set of temporary files on disk, named by the number   *)
(* of their creation; image records the last request: its source, the      *)
(* status of its response, the file it created (0 when none) and the step  *)
(* that failed ("none" on success).                                        *)

\* What analyze_image_with_gemini and lines 156-173 can do with the file:
\* no GOOGLE_API_KEY; reading the file or generate_content raises; the
\* answer is not JSON; the answer is JSON but not a string, so that
\* raw_analysis_text.strip() raises AttributeError; the answer is a JSON
\* string whose content is not JSON; the answer is a JSON string of JSON.
GeminiOutcomes ==
    {"api_key", "generate", "not_json", "not_str", "inner_not_json", "none"}

\* What a request can meet, by its source
ImageOutcomes(source) ==
    CASE source = "none" -> {"no_input"}
      [] source = "upload" -> {"upload_read"} \cup GeminiOutcomes
      [] source = "url" ->
            {"invalid_url", "get_raises", "status", "download"}
              \cup GeminiOutcomes

\* A NamedTemporaryFile(delete=False) was created: line 142 for an upload,
\* line 29 for a URL that was valid and answered 200.
CreatesTempFile(source, failure) ==
    \/ source = "upload"
    \/ source = "url" /\ failure \notin {"invalid_url", "get_raises", "status"}

\* image_path names the file when the finally clause runs: line 143 assigns
\* it before the upload is read, line 149 only when download_image_from_url
\* returns.
ImagePathAssigned(source, failure) ==
    /\ CreatesTempFile(source, failure)
    /\ ~(source = "url" /\ failure = "download")

\* The status of the response: lines 148, 151 and 26-27 raise 400, every
\* other failure ends as a 500 (lines 36-41, 121-131, 170, 180).
ImageStatus(failure) ==
    CASE failure = "none" -> 200
      [] failure \in {"no_input", "invalid_url", "status"} -> 400
      [] OTHER -> 500

\* Lines 181-183: the file is unlinked when image_path names it
TempFilesAfter(files, path, source, failure) ==
    IF CreatesTempFile(source, failure) /\ ~ImagePathAssigned(source, failure)
    THEN files \cup {path}
    ELSE files

\* One request to POST /analyze, from its arrival to its response
AnalyzeImage ==
    /\ tmp_count < MaxTempFiles
    /\ \E source \in {"none", "upload", "url"} :
         \E failure \in ImageOutcomes(source) :
            /\ tmp_count' = IF CreatesTempFile(source, failure)
                            THEN tmp_count + 1 ELSE tmp_count
            /\ temp_files' = TempFilesAfter(temp_files, tmp_count + 1,
                                            source, failure)
            /\ image' = [source |-> source,
                         status |-> ImageStatus(failure),
                         path |-> IF CreatesTempFile(source, failure)
                                  THEN tmp_count + 1 ELSE 0,
                         failure |-> failure]
    /\ UNCHANGED <<scoringVars, patterns, instance, built, loaded, ga, methodVars,
                   http, newsVars, sessionVars, url_response>>

NextImage == AnalyzeImage

SpecImage == Init /\ [][NextImage]_vars

=============================================================================
